---- MODULE Spec2Model ----
(***************************************************************************)
(* Model of the ampersend-sdk payment core:                                *)
(*   - X402HttpTransport (x402/http/transport.py): the 402 interception    *)
(*     transport, one coroutine per logical call, one action per stretch   *)
(*     of code between two awaits;                                         *)
(*   - the v2 <-> v1 protocol adapter (x402/v2_adapter.py);                *)
(*   - AmpersendManagementClient.create_agent and its prepare-response     *)
(*     verifier (ampersend/management.py);                                 *)
(*   - the Authorization Port implementations AmpersendTreasurer           *)
(*     (ampersend/treasurer.py) and NaiveX402Authorizer                    *)
(*     (x402/authorizers/naive.py);                                        *)
(*   - BlockRunAI.chat_completion (integrations/blockrun.py).              *)
(* Each part has its own specification over the shared state.              *)
(***************************************************************************)
EXTENDS Integers, Sequences, FiniteSets, TLC

VARIABLES
    active,                 \* the logical calls that run through the transport
    calls,                  \* per call: the coroutine's frame (pc and locals)
    wrapped_requests,       \* requests received by the wrapped transport, in order
    wrapped_responses,      \* responses handed back by the wrapped transport, in order
    payment_required_calls, \* treasurer.onPaymentRequired invocations, in order
    status_calls,           \* treasurer.onStatus invocations, in order
    mgmt,                   \* create_agent's frame (pc and locals)
    http_requests,          \* requests sent by the management client's _fetch
    signatures,             \* messages signed with the agent owner's key
    adapter,                \* one decode / encode through the v2 adapter (pc, arguments, results)
    treasurer,              \* one call into an Authorization Port implementation (pc and locals)
    collaborator_calls,     \* what that call asked of the API client, the wallet and uuid, in order
    hasher,                 \* two calls of _compute_user_op_hash: their arguments and results
    blockrun,               \* BlockRunAI.chat_completion's frame (pc and locals)
    blockrun_calls          \* its calls of self._client.post and of the treasurer, in order

vars == <<active, calls, wrapped_requests, wrapped_responses, payment_required_calls, status_calls,
          mgmt, http_requests, signatures, adapter, treasurer, collaborator_calls,
          hasher, blockrun, blockrun_calls>>

transportVars == <<active, calls, wrapped_requests, wrapped_responses, payment_required_calls,
                   status_calls>>
mgmtVars == <<mgmt, http_requests, signatures>>
adapterVars == <<adapter>>
treasurerVars == <<treasurer, collaborator_calls>>
hasherVars == <<hasher>>
blockrunVars == <<blockrun, blockrun_calls>>

\* what the actions of one part leave alone
outsideTransport == <<mgmtVars, adapterVars, treasurerVars, hasherVars, blockrunVars>>
outsideMgmt == <<transportVars, adapterVars, treasurerVars, hasherVars, blockrunVars>>
outsideAdapter == <<transportVars, mgmtVars, treasurerVars, hasherVars, blockrunVars>>
outsideTreasurer == <<transportVars, mgmtVars, adapterVars, hasherVars, blockrunVars>>
outsideHasher == <<transportVars, mgmtVars, adapterVars, treasurerVars, blockrunVars>>
outsideBlockRun == <<transportVars, mgmtVars, adapterVars, treasurerVars, hasherVars>>

-----------------------------------------------------------------------------
(* Values shared by both parts *)

\* Python's None, and the absence of a value in a frame
None == [tag |-> "None"]

\* a str / bytes value that is not further interpreted
Raw(s) == [tag |-> "raw", s |-> s]

\* a JSON document holding value v, and a text that is no JSON
Json(v) == [tag |-> "json", v |-> v]

\* base64 of the document d
B64(d) == [tag |-> "b64", d |-> d]

\* Python truthiness of an optional str
Truthy(x) == x # None /\ x # Raw("")

\* dict.get(key) on a function used as a dict
Get(d, key) == IF key \in DOMAIN d THEN d[key] ELSE None

\* dict.get(key, default)
GetOr(d, key, default) == IF key \in DOMAIN d THEN d[key] ELSE default

Range(s) == {s[i] : i \in DOMAIN s}

-----------------------------------------------------------------------------
(* Wire data: v1 and v2 payment envelopes *)

\* text of an exception raised inside a parse or a conversion
Raise(exc) == [tag |-> "raise", exc |-> exc]

IsRaise(x) == "tag" \in DOMAIN x /\ x.tag = "raise"

\* the most requirements an envelope of the model offers
MaxAccepts == 2

NETWORK_TO_ID == [n \in {"base-sepolia", "base"} |->
                    IF n = "base-sepolia" THEN "84532" ELSE "8453"]

\* Inverse lookup: chain-id string -> v1 network name
CHAIN_ID_TO_NETWORK == [id \in {NETWORK_TO_ID[n] : n \in DOMAIN NETWORK_TO_ID} |->
                          CHOOSE n \in DOMAIN NETWORK_TO_ID : NETWORK_TO_ID[n] = id]

DEFAULT_MAX_TIMEOUT_SECONDS == 300

UsdcSepolia == "0x036CbD53842c5426634e7929541eC2318f3dCF7e"
UsdcBase == "0x833589fCD6eDb6E08f4c7C32D4f71b54bdA02913"

\* the token registry of the x402 library, keyed by (chain id, asset address)
KnownToken(chain_id, asset) ==
    \/ chain_id = "84532" /\ asset = UsdcSepolia
    \/ chain_id = "8453" /\ asset = UsdcBase

get_token_name(chain_id, asset) == IF chain_id = "84532" THEN "USDC" ELSE "USD Coin"

get_token_version(chain_id, asset) == "2"

\* a CAIP-2 identifier "ns:id" is the sequence of its ':'-separated parts
\* "eip155:8453" -> "8453";  "8453" -> "8453"
parse_caip2_chain_id(network) ==
    IF Len(network) > 1 THEN network[2] ELSE network[1]

chain_id_to_v1_network(chain_id) ==
    IF chain_id \in DOMAIN CHAIN_ID_TO_NETWORK
      THEN CHAIN_ID_TO_NETWORK[chain_id]
      ELSE Raise("ValueError: Unknown chain ID")

V2RequiredKeys == {"scheme", "network", "amount", "asset", "payTo"}

\* one pass of the loop of v2_to_v1_payment_required: a v1 PaymentRequirements
\* or the exception the pass raises
V2RequirementToV1(req, resource) ==
    IF ~("network" \in DOMAIN req) THEN Raise("KeyError") ELSE
    LET chain_id == parse_caip2_chain_id(req.network)
        network_name == chain_id_to_v1_network(chain_id)
    IN  IF chain_id \notin DOMAIN CHAIN_ID_TO_NETWORK THEN network_name
        ELSE IF ~("asset" \in DOMAIN req) THEN Raise("KeyError")
        ELSE IF ~KnownToken(chain_id, req.asset) THEN Raise("ValueError: Token not found")
        ELSE IF ~(V2RequiredKeys \subseteq DOMAIN req) THEN Raise("KeyError")
        ELSE [scheme |-> req.scheme,
              network |-> network_name,
              max_amount_required |-> req.amount,
              resource |-> GetOr(resource, "url", ""),
              description |-> GetOr(req, "description", GetOr(resource, "url", "Payment")),
              mime_type |-> GetOr(resource, "mimeType", ""),
              pay_to |-> req.payTo,
              max_timeout_seconds |-> GetOr(req, "maxTimeoutSeconds", DEFAULT_MAX_TIMEOUT_SECONDS),
              asset |-> req.asset,
              extra |-> [name |-> get_token_name(chain_id, req.asset),
                         version |-> get_token_version(chain_id, req.asset)]]

\* mutant: a requirement that does not convert is skipped, the others are kept
v2_to_v1_skipping_failures(decoded) ==
    LET resource == GetOr(decoded, "resource", <<>>)
        v2_accepts == GetOr(decoded, "accepts", <<>>)
        converted == [i \in 1..Len(v2_accepts) |-> V2RequirementToV1(v2_accepts[i], resource)]
    IN  [tag |-> "ok",
         response |-> [x402_version |-> GetOr(decoded, "x402Version", 2),
                       accepts |-> SelectSeq(converted, LAMBDA r : ~IsRaise(r)),
                       error |-> "Payment required"],
         ctx |-> [resource |-> resource]]

\* v2 dict -> (v1 response, v2 context), or the first exception raised
v2_to_v1_payment_required(decoded) ==
    LET resource == GetOr(decoded, "resource", <<>>)
        v2_accepts == GetOr(decoded, "accepts", <<>>)
        converted == [i \in 1..Len(v2_accepts) |-> V2RequirementToV1(v2_accepts[i], resource)]
        failed == {i \in 1..Len(v2_accepts) : IsRaise(converted[i])}
    IN  IF failed # {}
          THEN converted[CHOOSE i \in failed : \A j \in failed : i <= j]
          ELSE [tag |-> "ok",
                response |-> [x402_version |-> GetOr(decoded, "x402Version", 2),
                              accepts |-> converted,
                              error |-> "Payment required"],
                ctx |-> [resource |-> resource]]

\* mutant: the CAIP-2 identifier is built from the network name, not the chain id
v1_requirement_to_v2_accepted_by_name(req) ==
    IF req.network \notin DOMAIN NETWORK_TO_ID THEN Raise("KeyError") ELSE
    [scheme |-> req.scheme,
     network |-> <<"eip155", req.network>>,
     amount |-> req.max_amount_required,
     asset |-> req.asset,
     payTo |-> req.pay_to,
     maxTimeoutSeconds |-> req.max_timeout_seconds]

\* Reconstruct a v2 `accepted` dict from a v1 PaymentRequirements
v1_requirement_to_v2_accepted(req) ==
    IF req.network \notin DOMAIN NETWORK_TO_ID THEN Raise("KeyError") ELSE
    [scheme |-> req.scheme,
     network |-> <<"eip155", NETWORK_TO_ID[req.network]>>,
     amount |-> req.max_amount_required,
     asset |-> req.asset,
     payTo |-> req.pay_to,
     maxTimeoutSeconds |-> req.max_timeout_seconds]

\* PaymentPayload.model_dump(by_alias=True)
model_dump_by_alias(payment) ==
    [x402Version |-> payment.x402_version,
     scheme |-> payment.scheme,
     network |-> payment.network,
     payload |-> payment.payload]

\* mutant: the envelope embeds the whole v1 payment instead of its inner payload
v1_to_v2_payment_payload_whole_payment(payment, v2_context, selected_requirement) ==
    LET accepted == v1_requirement_to_v2_accepted(selected_requirement)
    IN  IF IsRaise(accepted) THEN accepted
        ELSE [x402Version |-> 2,
              resource |-> v2_context.resource,
              accepted |-> accepted,
              payload |-> model_dump_by_alias(payment)]

v1_to_v2_payment_payload(payment, v2_context, selected_requirement) ==
    LET accepted == v1_requirement_to_v2_accepted(selected_requirement)
    IN  IF IsRaise(accepted) THEN accepted
        ELSE [x402Version |-> 2,
              resource |-> v2_context.resource,
              accepted |-> accepted,
              payload |-> model_dump_by_alias(payment).payload]

\* json.loads(base64.b64decode(header_value)) then the adapter
parse_v2_payment_required(header_value) ==
    IF header_value.tag # "b64" THEN Raise("binascii.Error")
    ELSE IF header_value.d.tag # "json" THEN Raise("JSONDecodeError")
    ELSE v2_to_v1_payment_required(header_value.d.v)

encode_v2_payment_signature(payment, v2_context, selected_requirement) ==
    LET dict == v1_to_v2_payment_payload(payment, v2_context, selected_requirement)
    IN  IF IsRaise(dict) THEN dict ELSE B64(Json(dict))

encode_v1_payment_header(payment) == B64(Json(model_dump_by_alias(payment)))

V1RequirementKeys == {"scheme", "network", "maxAmountRequired", "resource", "description",
                      "mimeType", "payTo", "maxTimeoutSeconds", "asset"}

\* PaymentRequirements(**w) of the x402 library: camelCase aliases to fields
ParseV1Requirement(w) ==
    IF ~(V1RequirementKeys \subseteq DOMAIN w) THEN Raise("ValidationError")
    ELSE [scheme |-> w.scheme,
          network |-> w.network,
          max_amount_required |-> w.maxAmountRequired,
          resource |-> w.resource,
          description |-> w.description,
          mime_type |-> w.mimeType,
          pay_to |-> w.payTo,
          max_timeout_seconds |-> w.maxTimeoutSeconds,
          asset |-> w.asset,
          extra |-> GetOr(w, "extra", None)]

\* mutant: a JSON body lacking envelope fields parses, the fields taking defaults
ParseV1PaymentRequiredLenient(body) ==
    IF body.tag # "json" THEN Raise("JSONDecodeError")
    ELSE LET accepts == GetOr(body.v, "accepts", <<>>)
             parsed == [i \in 1..Len(accepts) |-> ParseV1Requirement(accepts[i])]
         IN  IF \E i \in 1..Len(parsed) : IsRaise(parsed[i])
               THEN Raise("ValidationError")
               ELSE [tag |-> "ok",
                     response |-> [x402_version |-> GetOr(body.v, "x402Version", 1),
                                   accepts |-> parsed,
                                   error |-> GetOr(body.v, "error", "")]]

\* x402PaymentRequiredResponse(**json.loads(body)), or the exception raised
ParseV1PaymentRequired(body) ==
    IF body.tag # "json" THEN Raise("JSONDecodeError")
    ELSE IF ~({"x402Version", "accepts", "error"} \subseteq DOMAIN body.v)
      THEN Raise("ValidationError")
    ELSE LET parsed == [i \in 1..Len(body.v.accepts) |-> ParseV1Requirement(body.v.accepts[i])]
         IN  IF \E i \in 1..Len(parsed) : IsRaise(parsed[i])
               THEN Raise("ValidationError")
               ELSE [tag |-> "ok",
                     response |-> [x402_version |-> body.v.x402Version,
                                   accepts |-> parsed,
                                   error |-> body.v.error]]

-----------------------------------------------------------------------------
(* The environment of the transport: callers, servers, treasurers *)

CallIds == {1, 2}

RETRY_KEY == "_x402_is_retry"

Url == "https://api.example.com/resource"

PayTo == "0x1234567890123456789012345678901234567890"

\* requirements as a v1 server writes them in the 402 body
V1Wire(network, asset, amount) ==
    [scheme |-> "exact", network |-> network, maxAmountRequired |-> amount,
     resource |-> Url, description |-> "Test payment", mimeType |-> "application/json",
     payTo |-> PayTo, maxTimeoutSeconds |-> 300, asset |-> asset,
     extra |-> [name |-> "USDC", version |-> "2"]]

V1WireOffers == <<V1Wire("base-sepolia", UsdcSepolia, "1000000"),
                  V1Wire("base", UsdcBase, "2000000"),
                  V1Wire("base-sepolia", UsdcSepolia, "3000000")>>

\* requirements as a v2 server writes them in the payment-required header
V2Wire(chain, asset, amount) ==
    [scheme |-> "exact", network |-> <<"eip155", chain>>, amount |-> amount,
     asset |-> asset, payTo |-> PayTo]

V2WireOffers == <<V2Wire("84532", UsdcSepolia, "1000000"),
                  V2Wire("8453", UsdcBase, "2000000"),
                  V2Wire("84532", UsdcSepolia, "3000000")>>

Prefix(s, n) == SubSeq(s, 1, IF n < Len(s) THEN n ELSE Len(s))

V1Envelope(accepts) == [x402Version |-> 1, accepts |-> accepts, error |-> "Payment required"]

V2Envelope(accepts) ==
    [x402Version |-> 2, accepts |-> accepts,
     resource |-> [url |-> Url, mimeType |-> "application/json"]]

\* bodies a server may send with a 402
Bodies402 ==
    {Raw("not json"), Json([error |-> "billing issue"])}
    \cup {Json(V1Envelope(Prefix(V1WireOffers, n))) : n \in 0..MaxAccepts}

\* values a server may send in a payment-required header
V2HeaderValues ==
    {Raw("garbage"), B64(Raw("not json")),
     B64(Json(V2Envelope(<<V2Wire("999999", UsdcSepolia, "1000000")>>))),
     B64(Json(V2Envelope(<<V2WireOffers[1], V2Wire("999999", UsdcSepolia, "1000000")>>))),
     B64(Json(V2Envelope(<<[V2Wire("84532", UsdcSepolia, "1000000")
                              EXCEPT !.network = <<"84532">>]>>)))}
    \cup {B64(Json(V2Envelope(Prefix(V2WireOffers, n)))) : n \in 0..MaxAccepts}

\* header sets of a 402 (httpx.Headers: names are case-insensitive, kept lower-case)
Headers402 ==
    {<<>>, [server |-> Raw("nginx")]}
    \cup {("x-payment-required" :> v) : v \in V2HeaderValues}
    \cup {("payment-required" :> B64(Json(V2Envelope(Prefix(V2WireOffers, 1))))),
          ("x-payment-required" :> Raw("")) @@
              ("payment-required" :> B64(Json(V2Envelope(Prefix(V2WireOffers, 1))))),
          ("x-payment-required" :> Raw("")),
          ("x-payment-required" :> Raw("")) @@ ("payment-required" :> Raw(""))}

\* a response as the wrapped transport hands it over: an open, unread stream
Response(status_code, headers, content) ==
    [status_code |-> status_code, headers |-> headers, content |-> content,
     is_stream_consumed |-> FALSE, is_closed |-> FALSE]

\* httpx.Response(status_code=, headers=, content=): built from bytes, nothing to read
NewResponse(status_code, headers, content) ==
    [status_code |-> status_code, headers |-> headers, content |-> content,
     is_stream_consumed |-> TRUE, is_closed |-> TRUE]

\* what a server may answer to the original request
FirstResponses ==
    {Response(402, h, b) : h \in Headers402, b \in Bodies402}
    \cup {Response(st, <<>>, Raw("content")) : st \in {200, 500}}

PaymentResponseHeaders ==
    {<<>>, ("payment-response" :> Raw("receipt-data")),
     ("payment-response" :> Raw("")),
     ("x-payment-response" :> Raw("receipt-data"))}

\* what a server may answer to the retry
RetryResponses ==
    {Response(st, h, Raw("content")) : st \in {200, 201, 402, 500}, h \in PaymentResponseHeaders}
    \cup {Response(402, <<>>, Json(V1Envelope(Prefix(V1WireOffers, 1)))),
          Response(402, ("x-payment-required" :> B64(Json(V2Envelope(Prefix(V2WireOffers, 1))))),
                   Raw("content"))}

\* the requests a caller may hand to handle_async_request
Requests ==
    {[method |-> m.method, url |-> Url, headers |-> h, content |-> m.content, extensions |-> e] :
        m \in {[method |-> "GET", content |-> Raw("")],
               [method |-> "POST", content |-> Raw("{prompt}")]},
        h \in {("content-type" :> Raw("application/json")),
               ("content-type" :> Raw("application/json")) @@ ("x-payment" :> Raw("stale"))},
        e \in {<<>>, (RETRY_KEY :> TRUE), (RETRY_KEY :> FALSE), ("timeout" :> TRUE)}}

AuthorizationIds == {"id-1", "id-2"}

\* the proof a wallet signs for a requirement
Payment(req) ==
    [x402_version |-> 1, scheme |-> req.scheme, network |-> req.network,
     payload |-> [signature |-> "0xdeadbeef",
                  authorization |-> [to |-> req.pay_to, value |-> req.max_amount_required]]]

X402Authorization(payment, authorization_id, selected_requirement) ==
    [payment |-> payment, authorization_id |-> authorization_id,
     selected_requirement |-> selected_requirement]

\* what a treasurer may return for an envelope: an authorization for one of the
\* offers, or for its own fixed requirement when it does not look at the offers
Authorizations(payment_required) ==
    {X402Authorization(Payment(r), id, r) :
        id \in AuthorizationIds,
        r \in Range(payment_required.accepts) \cup {ParseV1Requirement(V1WireOffers[1])}}

-----------------------------------------------------------------------------
(* X402HttpTransport *)

IdleFrame ==
    [pc |-> "idle", request |-> None, response |-> None, protocol |-> "none",
     payment_required |-> None, v2_ctx |-> None, authorization |-> None,
     retry_request |-> None, retry_response |-> None, logged_error |-> FALSE,
     raised_at |-> "nowhere", result |-> None]

Returned(response) == [kind |-> "return", response |-> response]

Raised(exc) == [kind |-> "raise", exc |-> exc]

\* the frame once handle_async_request has returned or raised
Done(frame, result) == [frame EXCEPT !.pc = "done", !.result = result]

\* mutant: the guard reads another key than the one _retry sets
is_retry_other_key(request) ==
    "x402_retry" \in DOMAIN request.extensions /\ request.extensions["x402_retry"] = TRUE

\* request.extensions.get(self._RETRY_KEY), as a condition
is_retry(request) ==
    RETRY_KEY \in DOMAIN request.extensions /\ request.extensions[RETRY_KEY] = TRUE

\* Return the v2 payment-required header value, or None
get_v2_header(response) ==
    IF Truthy(Get(response.headers, "x-payment-required"))
      THEN Get(response.headers, "x-payment-required")
      ELSE Get(response.headers, "payment-required")

\* mutant: an empty header value does not count as a header
has_payment_response_nonempty(response) ==
    \/ Truthy(Get(response.headers, "payment-response"))
    \/ Truthy(Get(response.headers, "x-payment-response"))

\* Check whether the response carries an x402 payment-response header
has_payment_response(response) ==
    \/ Get(response.headers, "payment-response") # None
    \/ Get(response.headers, "x-payment-response") # None

\* the context handed to both treasurer callbacks
Context(request) == [method |-> "http", params |-> [resource |-> request.url]]

\* mutant: the success test compares with another status than 200
report_status_wrong_success(response) ==
    IF response.status_code = 402 THEN "payment-rejected"
    ELSE IF response.status_code = 201 \/ has_payment_response(response)
      THEN "payment-completed"
    ELSE "payment-failed"

\* mutant: a second 402 is not told apart from any other failure
report_status_no_rejected(response) ==
    IF response.status_code = 200 \/ has_payment_response(response)
      THEN "payment-completed"
    ELSE "payment-failed"

\* mutant: `and` for `or`, a 200 counts only with the header
report_status_needs_header(response) ==
    IF response.status_code = 402 THEN "payment-rejected"
    ELSE IF response.status_code = 200 /\ has_payment_response(response)
      THEN "payment-completed"
    ELSE "payment-failed"

\* mutant: whatever is not a 402 counts as paid
report_status_never_failed(response) ==
    IF response.status_code = 402 THEN "payment-rejected"
    ELSE "payment-completed"

\* the classification of the retried response in _report_status
report_status(response) ==
    IF response.status_code = 402 THEN "payment-rejected"
    ELSE IF response.status_code = 200 \/ has_payment_response(response)
      THEN "payment-completed"
    ELSE "payment-failed"

\* mutant: the retry is built without the body of the original
retry_request_without_content(original, header_name, header_value) ==
    [method |-> original.method,
     url |-> original.url,
     headers |-> (header_name :> header_value) @@ original.headers,
     content |-> Raw(""),
     extensions |-> (RETRY_KEY :> TRUE) @@ original.extensions]

\* the request _retry builds from the original
retry_request(original, header_name, header_value) ==
    [method |-> original.method,
     url |-> original.url,
     headers |-> (header_name :> header_value) @@ original.headers,
     content |-> original.content,
     extensions |-> (RETRY_KEY :> TRUE) @@ original.extensions]

\* mutant: the pass-through 402 is built without the original headers
passthrough_no_headers(response) == NewResponse(402, <<>>, response.content)

\* the pass-through 402 built from the drained response
passthrough(response) == NewResponse(402, response.headers, response.content)

\* handle_async_request up to its first await: the request goes to the wrapped transport
HandleAsyncRequest(c, request) ==
    /\ c \in active
    /\ calls[c].pc = "idle"
    /\ calls' = [calls EXCEPT ![c] = [@ EXCEPT !.pc = "sent", !.request = request]]
    /\ wrapped_requests' = Append(wrapped_requests, [call |-> c, request |-> request])
    /\ UNCHANGED <<active, wrapped_responses, payment_required_calls, status_calls, outsideTransport>>

\* mutant: only a 200 passes through, every other status enters the payment flow
FirstResponseOnly200(c, response) ==
    /\ calls[c].pc = "sent"
    /\ calls' = [calls EXCEPT ![c] =
         IF response.status_code = 200 THEN Done(@, Returned(response))
         ELSE IF is_retry(@.request) THEN Done(@, Returned(response))
         ELSE [@ EXCEPT !.pc = "aread", !.response = response]]
    /\ wrapped_responses' = Append(wrapped_responses, [call |-> c, response |-> response])
    /\ UNCHANGED <<active, wrapped_requests, payment_required_calls, status_calls, outsideTransport>>

\* the wrapped transport answers the original request
FirstResponse(c, response) ==
    /\ calls[c].pc = "sent"
    /\ calls' = [calls EXCEPT ![c] =
         IF response.status_code # 402 THEN Done(@, Returned(response))
         ELSE IF is_retry(@.request) THEN Done(@, Returned(response))
         ELSE [@ EXCEPT !.pc = "aread", !.response = response]]
    /\ wrapped_responses' = Append(wrapped_responses, [call |-> c, response |-> response])
    /\ UNCHANGED <<active, wrapped_requests, payment_required_calls, status_calls, outsideTransport>>

\* await response.aread()
Aread(c) ==
    /\ calls[c].pc = "aread"
    /\ calls' = [calls EXCEPT ![c] =
         [@ EXCEPT !.pc = "aclose", !.response.is_stream_consumed = TRUE]]
    /\ UNCHANGED <<active, wrapped_responses, wrapped_requests, payment_required_calls, status_calls, outsideTransport>>

\* _handle_v1 up to its await of the treasurer
handle_v1(c, frame) ==
    LET parsed == ParseV1PaymentRequired(frame.response.content)
    IN  IF IsRaise(parsed)
          THEN /\ calls' = [calls EXCEPT ![c] = Done(frame, Returned(passthrough(frame.response)))]
               /\ UNCHANGED payment_required_calls
          ELSE /\ calls' = [calls EXCEPT ![c] =
                     [frame EXCEPT !.pc = "authorizing", !.protocol = "v1",
                                   !.payment_required = parsed.response]]
               /\ payment_required_calls' = Append(payment_required_calls,
                     [call |-> c, payment_required |-> parsed.response,
                      context |-> Context(frame.request)])

\* mutant: no try/except around the parse, its exception leaves the transport
handle_v2_unguarded(c, frame, header_value) ==
    LET parsed == parse_v2_payment_required(header_value)
    IN  IF IsRaise(parsed)
          THEN /\ calls' = [calls EXCEPT ![c] = Done(frame, Raised(parsed.exc))]
               /\ UNCHANGED payment_required_calls
          ELSE /\ calls' = [calls EXCEPT ![c] =
                     [frame EXCEPT !.pc = "authorizing", !.protocol = "v2",
                                   !.payment_required = parsed.response,
                                   !.v2_ctx = parsed.ctx]]
               /\ payment_required_calls' = Append(payment_required_calls,
                     [call |-> c, payment_required |-> parsed.response,
                      context |-> Context(frame.request)])

\* _handle_v2 up to its await of the treasurer
handle_v2(c, frame, header_value) ==
    LET parsed == parse_v2_payment_required(header_value)
    IN  IF IsRaise(parsed)
          THEN /\ calls' = [calls EXCEPT ![c] = Done(frame, Returned(passthrough(frame.response)))]
               /\ UNCHANGED payment_required_calls
          ELSE /\ calls' = [calls EXCEPT ![c] =
                     [frame EXCEPT !.pc = "authorizing", !.protocol = "v2",
                                   !.payment_required = parsed.response,
                                   !.v2_ctx = parsed.ctx]]
               /\ payment_required_calls' = Append(payment_required_calls,
                     [call |-> c, payment_required |-> parsed.response,
                      context |-> Context(frame.request)])

\* mutant: the 402 is read but not closed before the envelope is handled
AcloseSkipped(c) ==
    /\ calls[c].pc = "aclose"
    /\ LET frame == calls[c]
           v2_header == get_v2_header(frame.response)
       IN  IF v2_header # None
             THEN handle_v2(c, frame, v2_header)
             ELSE handle_v1(c, frame)
    /\ UNCHANGED <<active, wrapped_responses, wrapped_requests, status_calls, outsideTransport>>

\* await response.aclose(), then version detection and the parse of the envelope
Aclose(c) ==
    /\ calls[c].pc = "aclose"
    /\ LET frame == [calls[c] EXCEPT !.response.is_closed = TRUE]
           v2_header == get_v2_header(frame.response)
       IN  IF v2_header # None
             THEN handle_v2(c, frame, v2_header)
             ELSE handle_v1(c, frame)
    /\ UNCHANGED <<active, wrapped_responses, wrapped_requests, status_calls, outsideTransport>>

\* the header the proof travels under, and its value (or the exception of the encoder)
payment_header(frame, authorization) ==
    IF frame.protocol = "v2"
      THEN [name |-> "payment-signature",
            value |-> encode_v2_payment_signature(authorization.payment, frame.v2_ctx,
                                                  authorization.selected_requirement)]
      ELSE [name |-> "x-payment",
            value |-> encode_v1_payment_header(authorization.payment)]

\* what the treasurer may answer to the pending onPaymentRequired of call c
TreasurerAnswers(c) ==
    IF calls[c].pc = "authorizing"
      THEN Authorizations(calls[c].payment_required) \cup {None}
      ELSE {}

\* mutant: _retry sets the header and the flag on the original request and sends it again
OnPaymentRequiredReturnsInPlace(c, authorization) ==
    /\ calls[c].pc = "authorizing"
    /\ authorization \in TreasurerAnswers(c)
    /\ LET frame == calls[c]
           header == payment_header(frame, authorization)
           retry == retry_request(frame.request, header.name, header.value)
       IN  IF authorization = None
             THEN /\ calls' = [calls EXCEPT ![c] =
                        Done(frame, Returned(passthrough(frame.response)))]
                  /\ UNCHANGED wrapped_requests
           ELSE IF IsRaise(header.value)
             THEN /\ calls' = [calls EXCEPT ![c] =
                        Done([frame EXCEPT !.authorization = authorization],
                             Raised(header.value.exc))]
                  /\ UNCHANGED wrapped_requests
           ELSE /\ calls' = [calls EXCEPT ![c] =
                      [frame EXCEPT !.pc = "retrying", !.authorization = authorization,
                                    !.request = retry, !.retry_request = retry]]
                /\ wrapped_requests' = Append(wrapped_requests, [call |-> c, request |-> retry])
    /\ UNCHANGED <<active, wrapped_responses, payment_required_calls, status_calls, outsideTransport>>

\* mutant: a decline is reported to the treasurer as a rejected payment
OnPaymentRequiredReturnsReportingDecline(c, authorization) ==
    /\ calls[c].pc = "authorizing"
    /\ authorization \in TreasurerAnswers(c)
    /\ LET frame == calls[c]
           header == payment_header(frame, authorization)
           retry == retry_request(frame.request, header.name, header.value)
       IN  IF authorization = None
             THEN /\ calls' = [calls EXCEPT ![c] =
                        Done(frame, Returned(passthrough(frame.response)))]
                  /\ status_calls' = Append(status_calls,
                        [call |-> c, status |-> "payment-rejected",
                         authorization |-> None, context |-> Context(frame.request)])
                  /\ UNCHANGED wrapped_requests
           ELSE IF IsRaise(header.value)
             THEN /\ calls' = [calls EXCEPT ![c] =
                        Done([frame EXCEPT !.authorization = authorization],
                             Raised(header.value.exc))]
                  /\ UNCHANGED <<wrapped_requests, status_calls>>
           ELSE /\ calls' = [calls EXCEPT ![c] =
                      [frame EXCEPT !.pc = "retrying", !.authorization = authorization,
                                    !.retry_request = retry]]
                /\ wrapped_requests' = Append(wrapped_requests, [call |-> c, request |-> retry])
                /\ UNCHANGED status_calls
    /\ UNCHANGED <<active, wrapped_responses, payment_required_calls, outsideTransport>>

\* treasurer.onPaymentRequired returns: decline, or encode the proof and retry
OnPaymentRequiredReturns(c, authorization) ==
    /\ calls[c].pc = "authorizing"
    /\ authorization \in TreasurerAnswers(c)
    /\ LET frame == calls[c]
           header == payment_header(frame, authorization)
           retry == retry_request(frame.request, header.name, header.value)
       IN  IF authorization = None
             THEN /\ calls' = [calls EXCEPT ![c] =
                        Done(frame, Returned(passthrough(frame.response)))]
                  /\ UNCHANGED wrapped_requests
           ELSE IF IsRaise(header.value)
             THEN /\ calls' = [calls EXCEPT ![c] =
                        Done([frame EXCEPT !.authorization = authorization],
                             Raised(header.value.exc))]
                  /\ UNCHANGED wrapped_requests
           ELSE /\ calls' = [calls EXCEPT ![c] =
                      [frame EXCEPT !.pc = "retrying", !.authorization = authorization,
                                    !.retry_request = retry]]
                /\ wrapped_requests' = Append(wrapped_requests, [call |-> c, request |-> retry])
    /\ UNCHANGED <<active, wrapped_responses, payment_required_calls, status_calls, outsideTransport>>

\* mutant: the retry goes through handle_async_request again and its request has lost
\* the retry flag, so a 402 on the retry starts the payment flow over
RetryResponseReentrant(c, response) ==
    /\ calls[c].pc = "retrying"
    /\ calls' = [calls EXCEPT ![c] =
         IF response.status_code = 402
           THEN [@ EXCEPT !.pc = "aread", !.response = response]
           ELSE [@ EXCEPT !.pc = "reporting", !.retry_response = response]]
    /\ wrapped_responses' = Append(wrapped_responses, [call |-> c, response |-> response])
    /\ status_calls' =
         IF response.status_code = 402 THEN status_calls
         ELSE Append(status_calls,
                [call |-> c, status |-> report_status(response),
                 authorization |-> calls[c].authorization,
                 context |-> Context(calls[c].request)])
    /\ UNCHANGED <<active, wrapped_requests, payment_required_calls, outsideTransport>>

\* the call whose retry was sent last
LastRetried ==
    LET retries == SelectSeq(wrapped_requests, LAMBDA e : is_retry(e.request))
    IN  retries[Len(retries)].call

\* mutant: the authorization is kept in a field of the transport instance, which
\* the call that was authorized last has overwritten
RetryResponseSharedAuthorization(c, response) ==
    /\ calls[c].pc = "retrying"
    /\ calls' = [calls EXCEPT ![c] = [@ EXCEPT !.pc = "reporting", !.retry_response = response]]
    /\ wrapped_responses' = Append(wrapped_responses, [call |-> c, response |-> response])
    /\ status_calls' = Append(status_calls,
         [call |-> c, status |-> report_status(response),
          authorization |-> calls[LastRetried].authorization,
          context |-> Context(calls[c].request)])
    /\ UNCHANGED <<active, wrapped_requests, payment_required_calls, outsideTransport>>

\* the wrapped transport answers the retry; _report_status up to its await of onStatus
RetryResponse(c, response) ==
    /\ calls[c].pc = "retrying"
    /\ calls' = [calls EXCEPT ![c] = [@ EXCEPT !.pc = "reporting", !.retry_response = response]]
    /\ wrapped_responses' = Append(wrapped_responses, [call |-> c, response |-> response])
    /\ status_calls' = Append(status_calls,
         [call |-> c, status |-> report_status(response),
          authorization |-> calls[c].authorization,
          context |-> Context(calls[c].request)])
    /\ UNCHANGED <<active, wrapped_requests, payment_required_calls, outsideTransport>>

\* mutant: the handler logs the exception of onStatus and raises it again
OnStatusLogsAndReraises(c, raised) ==
    /\ calls[c].pc = "reporting"
    /\ calls' = [calls EXCEPT ![c] =
         IF raised THEN Done([@ EXCEPT !.logged_error = TRUE], Raised("Exception"))
         ELSE Done(@, Returned(@.retry_response))]
    /\ UNCHANGED <<active, wrapped_responses, wrapped_requests, payment_required_calls, status_calls, outsideTransport>>

\* treasurer.onStatus returns, or raises an Exception that _report_status swallows
OnStatusReturns(c, raised) ==
    /\ calls[c].pc = "reporting"
    /\ calls' = [calls EXCEPT ![c] =
         Done([@ EXCEPT !.logged_error = raised], Returned(@.retry_response))]
    /\ UNCHANGED <<active, wrapped_responses, wrapped_requests, payment_required_calls, status_calls, outsideTransport>>

\* mutant: an exception of onPaymentRequired is taken for a decline
AwaitRaisesDeclining(c) ==
    /\ calls[c].pc \in {"sent", "aread", "aclose", "authorizing", "retrying"}
    /\ calls' = [calls EXCEPT ![c] =
         IF calls[c].pc = "authorizing"
           THEN Done([@ EXCEPT !.raised_at = calls[c].pc], Returned(passthrough(@.response)))
           ELSE Done([@ EXCEPT !.raised_at = calls[c].pc], Raised("Exception"))]
    /\ UNCHANGED <<active, wrapped_responses, wrapped_requests, payment_required_calls, status_calls, outsideTransport>>

\* an awaited collaborator raises (the wrapped transport, the response stream, the
\* treasurer's onPaymentRequired): nothing in the transport catches it
AwaitRaises(c) ==
    /\ calls[c].pc \in {"sent", "aread", "aclose", "authorizing", "retrying"}
    /\ calls' = [calls EXCEPT ![c] =
         Done([@ EXCEPT !.raised_at = calls[c].pc], Raised("Exception"))]
    /\ UNCHANGED <<active, wrapped_responses, wrapped_requests, payment_required_calls, status_calls, outsideTransport>>

\* the caller cancels the task: CancelledError surfaces at the pending await, and
\* being a BaseException it passes the `except Exception` of _report_status too
Cancelled(c) ==
    /\ calls[c].pc \in {"sent", "aread", "aclose", "authorizing", "retrying", "reporting"}
    /\ calls' = [calls EXCEPT ![c] = Done(@, Raised("CancelledError"))]
    /\ UNCHANGED <<active, wrapped_responses, wrapped_requests, payment_required_calls, status_calls, outsideTransport>>

NextTransport ==
    \E c \in CallIds :
        \/ \E request \in Requests : HandleAsyncRequest(c, request)
        \/ \E response \in FirstResponses : FirstResponse(c, response)
        \/ Aread(c)
        \/ Aclose(c)
        \/ \E authorization \in TreasurerAnswers(c) : OnPaymentRequiredReturns(c, authorization)
        \/ \E response \in RetryResponses : RetryResponse(c, response)
        \/ \E raised \in BOOLEAN : OnStatusReturns(c, raised)
        \/ AwaitRaises(c)
        \/ Cancelled(c)

\* a collaborator call c waits for comes back: the wrapped transport answers or
\* fails, the stream is read and closed, the treasurer returns or raises
AwaitReturns(c) ==
    \/ \E response \in FirstResponses : FirstResponse(c, response)
    \/ Aread(c)
    \/ Aclose(c)
    \/ \E authorization \in TreasurerAnswers(c) : OnPaymentRequiredReturns(c, authorization)
    \/ \E response \in RetryResponses : RetryResponse(c, response)
    \/ \E raised \in BOOLEAN : OnStatusReturns(c, raised)
    \/ AwaitRaises(c)

\* no awaited call hangs for ever
EveryAwaitReturns == \A c \in CallIds : WF_vars(AwaitReturns(c))

-----------------------------------------------------------------------------
(* Two logical calls through one transport instance *)

\* the requests of the two callers: neither is a retry
TwoCallRequests ==
    {r \in Requests : r.extensions = <<>> /\ DOMAIN r.headers = {"content-type"}}

\* the server asks for payment in either protocol, or serves the resource
TwoCallFirstResponses ==
    {Response(402, <<>>, Json(V1Envelope(Prefix(V1WireOffers, 1)))),
     Response(402, ("payment-required" :> B64(Json(V2Envelope(Prefix(V2WireOffers, 1))))),
              Raw("content")),
     Response(200, <<>>, Raw("content"))}

\* the server accepts the payment, asks again, or fails
TwoCallRetryResponses == {Response(st, <<>>, Raw("content")) : st \in {200, 402, 500}}

\* both calls run on the same instance, their steps in any order
NextTwoCalls ==
    \E c \in CallIds :
        \/ \E request \in TwoCallRequests : HandleAsyncRequest(c, request)
        \/ \E response \in TwoCallFirstResponses : FirstResponse(c, response)
        \/ Aread(c)
        \/ Aclose(c)
        \/ \E authorization \in TreasurerAnswers(c) : OnPaymentRequiredReturns(c, authorization)
        \/ \E response \in TwoCallRetryResponses : RetryResponse(c, response)
        \/ OnStatusReturns(c, FALSE)
        \/ AwaitRaises(c)

-----------------------------------------------------------------------------
(* The v2 adapter on its own: one decode, then one encode *)

\* requirements a v2 payload may list: payable ones, and ones that do not convert
AdapterRequirements ==
    {V2Wire("84532", UsdcSepolia, "500"),
     V2Wire("8453", UsdcBase, "1000"),
     [V2Wire("84532", UsdcSepolia, "500") EXCEPT !.network = <<"84532">>],
     V2Wire("8453", UsdcBase, "1000") @@ [description |-> "Custom desc", maxTimeoutSeconds |-> 60],
     V2Wire("99999", "0xUnknown", "1000"),
     V2Wire("84532", "0xUnknown", "1000"),
     [scheme |-> "exact", network |-> <<"eip155", "8453">>, amount |-> "1000",
      payTo |-> PayTo]}

RECURSIVE SeqsUpTo(_, _)
\* the sequences over S of length at most n
SeqsUpTo(S, n) ==
    IF n = 0 THEN {<<>>}
    ELSE LET shorter == SeqsUpTo(S, n - 1)
         IN  shorter \cup {Append(q, x) : q \in shorter, x \in S}

\* the decoded v2 payloads handed to v2_to_v1_payment_required
AdapterPayloads ==
    {version @@ accepts @@ resource :
        version \in {<<>>, ("x402Version" :> 2)},
        accepts \in {<<>>} \cup {("accepts" :> q) : q \in SeqsUpTo(AdapterRequirements, MaxAccepts)},
        resource \in {<<>>,
                      ("resource" :> [url |-> "https://api.example.com/chat"]),
                      ("resource" :> [url |-> "https://api.example.com/chat",
                                      mimeType |-> "application/json"])}}

IdleAdapter ==
    [pc |-> "idle", decoded |-> None, v1_response |-> None, v2_ctx |-> None,
     payment |-> None, selected_requirement |-> None, encoded |-> None, raised |-> None]

\* v1_resp, v2_ctx = v2_to_v1_payment_required(decoded)
DecodeV2(decoded) ==
    /\ adapter.pc = "idle"
    /\ LET result == v2_to_v1_payment_required(decoded)
       IN  adapter' =
             IF IsRaise(result)
               THEN [adapter EXCEPT !.pc = "raised", !.decoded = decoded, !.raised = result]
               ELSE [adapter EXCEPT !.pc = "decoded", !.decoded = decoded,
                                    !.v1_response = result.response, !.v2_ctx = result.ctx]
    /\ UNCHANGED outsideAdapter

\* the requirements a wallet may have signed for: an offered one, or one of its own
AdapterSelections ==
    IF adapter.pc = "decoded"
      THEN Range(adapter.v1_response.accepts) \cup {ParseV1Requirement(V1WireOffers[1])}
      ELSE {}

\* result = v1_to_v2_payment_payload(payment, v2_ctx, selected)
EncodeV2(selected) ==
    /\ adapter.pc = "decoded"
    /\ LET payment == Payment(selected)
           result == v1_to_v2_payment_payload(payment, adapter.v2_ctx, selected)
           called == [adapter EXCEPT !.payment = payment, !.selected_requirement = selected]
       IN  adapter' =
             IF IsRaise(result)
               THEN [called EXCEPT !.pc = "raised", !.raised = result]
               ELSE [called EXCEPT !.pc = "encoded", !.encoded = result]
    /\ UNCHANGED outsideAdapter

NextAdapter ==
    \/ \E decoded \in AdapterPayloads : DecodeV2(decoded)
    \/ \E selected \in AdapterSelections : EncodeV2(selected)

-----------------------------------------------------------------------------
(* The Authorization Port implementations *)

\* PaymentStatus of the x402_a2a library
PaymentStatuses ==
    {"payment-required", "payment-submitted", "payment-verified", "payment-rejected",
     "payment-completed", "payment-failed"}

\* the envelopes a caller hands to a port: none, one or several offers
PortEnvelopes ==
    {[x402_version |-> 1,
      accepts |-> [i \in 1..n |-> ParseV1Requirement(V1WireOffers[i])],
      error |-> "Payment required"] : n \in 0..MaxAccepts}

\* a requirement no envelope of the model offers
ForeignRequirement == ParseV1Requirement(V1Wire("base", UsdcBase, "9000000"))

\* AuthorizedRequirement entries the service may list for an envelope: offers of the
\* envelope, and a requirement of the service's own making
AuthorizedRequirements(payment_required) ==
    {[requirement |-> r] : r \in Range(payment_required.accepts) \cup {ForeignRequirement}}

\* `recommended`: an index into authorized.requirements, or None
Index(k) == [tag |-> "index", n |-> k]

\* what ApiClient.authorize_payment may return for an envelope
AuthorizeReplies(payment_required) ==
    {[authorized |-> [requirements |-> q, recommended |-> k], rejected |-> <<>>] :
        q \in SeqsUpTo(AuthorizedRequirements(payment_required), MaxAccepts),
        k \in {None} \cup {Index(n) : n \in 0..MaxAccepts}}

WalletSignatures == {"0xdeadbeef", "0xfeedface"}

\* what X402Wallet.create_payment may do: sign, or raise
WalletOutcomes == WalletSignatures \cup {"raise"}

\* the payment a wallet returns for a requirement when it signs with `signature`
SignedPayment(req, signature) == [Payment(req) EXCEPT !.payload.signature = signature]

\* authorizations a caller may pass to onStatus
StatusAuthorizations ==
    {X402Authorization(SignedPayment(r, sig), id, r) :
        r \in {ParseV1Requirement(V1WireOffers[1])}, sig \in WalletSignatures,
        id \in AuthorizationIds}

\* the context argument of onStatus
StatusContexts == {None, <<>>, [reason |-> "insufficient funds"]}

IdleTreasurer ==
    [pc |-> "idle", impl |-> "none", method |-> "none", payment_required |-> None,
     status |-> None, authorization |-> None, result |-> None, authorized_req |-> None,
     payment |-> None, authorization_id |-> None, event |-> None, outcome |-> None]

PortReturned(value) == [kind |-> "return", value |-> value]

PortRaised(exc) == [kind |-> "raise", exc |-> exc]

PortDone(frame, outcome) == [frame EXCEPT !.pc = "done", !.outcome = outcome]

AuthorizePaymentCall(requirements) ==
    [target |-> "api_client.authorize_payment", requirements |-> requirements]

CreatePaymentCall(requirements) ==
    [target |-> "wallet.create_payment", requirements |-> requirements]

Uuid4Call(hex) == [target |-> "uuid.uuid4", hex |-> hex]

ReportPaymentEventCall(event_id, payment, event) ==
    [target |-> "api_client.report_payment_event", event_id |-> event_id,
     payment |-> payment, event |-> event]

PaymentEventSending == [type |-> "sending"]
PaymentEventAccepted == [type |-> "accepted"]
PaymentEventError(reason) == [type |-> "error", reason |-> reason]
PaymentEventRejected(reason) == [type |-> "rejected", reason |-> reason]

\* AmpersendTreasurer.onPaymentRequired, up to the await of authorize_payment
OnPaymentRequired(payment_required) ==
    /\ treasurer.pc = "idle"
    /\ treasurer' = [treasurer EXCEPT !.pc = "authorize_payment", !.impl = "AmpersendTreasurer",
                                      !.method = "onPaymentRequired",
                                      !.payment_required = payment_required]
    /\ collaborator_calls' = Append(collaborator_calls,
                                    AuthorizePaymentCall(payment_required.accepts))
    /\ UNCHANGED outsideTreasurer

\* the index of the requirement onPaymentRequired picks from a reply (0-based), or
\* the ValueError of the bounds check
recommended_index(result) ==
    LET index == IF result.authorized.recommended # None
                   THEN result.authorized.recommended.n ELSE 0
    IN  IF index >= Len(result.authorized.requirements)
          THEN Raise("ValueError: Invalid recommended index")
          ELSE Index(index)

\* mutant: a reply that authorizes nothing is not told apart from the others
AuthorizePaymentReturnsUnchecked(result, wallet_outcome, hex) ==
    /\ treasurer.pc = "authorize_payment"
    /\ LET index == recommended_index(result)
           called == [treasurer EXCEPT !.result = result]
       IN  IF IsRaise(index)
             THEN /\ treasurer' = PortDone(called, PortRaised(index.exc))
                  /\ UNCHANGED collaborator_calls
             ELSE
               LET authorized_req == result.authorized.requirements[index.n + 1]
                   payment == SignedPayment(authorized_req.requirement, wallet_outcome)
               IN  /\ wallet_outcome # "raise"
                   /\ treasurer' = [called EXCEPT !.pc = "report_sending",
                                                  !.authorized_req = authorized_req,
                                                  !.payment = payment,
                                                  !.authorization_id = hex]
                   /\ collaborator_calls' = collaborator_calls \o
                        <<CreatePaymentCall(authorized_req.requirement), Uuid4Call(hex),
                          ReportPaymentEventCall(hex, payment, PaymentEventSending)>>
    /\ UNCHANGED outsideTreasurer

\* mutant: the authorization is returned without the `sending` report
AuthorizePaymentReturnsUnreported(result, wallet_outcome, hex) ==
    /\ treasurer.pc = "authorize_payment"
    /\ LET index == recommended_index(result)
           called == [treasurer EXCEPT !.result = result]
       IN  IF result.authorized.requirements = <<>>
             THEN /\ treasurer' = PortDone(called, PortReturned(None))
                  /\ UNCHANGED collaborator_calls
           ELSE IF IsRaise(index)
             THEN /\ treasurer' = PortDone(called, PortRaised(index.exc))
                  /\ UNCHANGED collaborator_calls
           ELSE
               LET authorized_req == result.authorized.requirements[index.n + 1]
                   payment == SignedPayment(authorized_req.requirement, wallet_outcome)
               IN  /\ wallet_outcome # "raise"
                   /\ treasurer' = PortDone([called EXCEPT !.authorized_req = authorized_req,
                                                           !.payment = payment,
                                                           !.authorization_id = hex],
                                            PortReturned(X402Authorization(
                                                payment, hex, authorized_req.requirement)))
                   /\ collaborator_calls' = collaborator_calls \o
                        <<CreatePaymentCall(authorized_req.requirement), Uuid4Call(hex)>>
    /\ UNCHANGED outsideTreasurer

\* authorize_payment returns `result`: onPaymentRequired runs on to its return of
\* None, to an exception, or to the await of report_payment_event
AuthorizePaymentReturns(result, wallet_outcome, hex) ==
    /\ treasurer.pc = "authorize_payment"
    /\ LET index == recommended_index(result)
           called == [treasurer EXCEPT !.result = result]
       IN  IF result.authorized.requirements = <<>>
             THEN /\ treasurer' = PortDone(called, PortReturned(None))
                  /\ UNCHANGED collaborator_calls
           ELSE IF IsRaise(index)
             THEN /\ treasurer' = PortDone(called, PortRaised(index.exc))
                  /\ UNCHANGED collaborator_calls
           ELSE
               LET authorized_req == result.authorized.requirements[index.n + 1]
                   selected == [called EXCEPT !.authorized_req = authorized_req]
                   payment == SignedPayment(authorized_req.requirement, wallet_outcome)
               IN  IF wallet_outcome = "raise"
                     THEN /\ treasurer' = PortDone(selected, PortRaised("Exception"))
                          /\ collaborator_calls' = Append(collaborator_calls,
                               CreatePaymentCall(authorized_req.requirement))
                     ELSE /\ treasurer' = [selected EXCEPT !.pc = "report_sending",
                                                           !.payment = payment,
                                                           !.authorization_id = hex]
                          /\ collaborator_calls' = collaborator_calls \o
                               <<CreatePaymentCall(authorized_req.requirement), Uuid4Call(hex),
                                 ReportPaymentEventCall(hex, payment, PaymentEventSending)>>
    /\ UNCHANGED outsideTreasurer

\* authorize_payment raises: nothing in onPaymentRequired catches it
AuthorizePaymentRaises ==
    /\ treasurer.pc = "authorize_payment"
    /\ treasurer' = PortDone(treasurer, PortRaised("Exception"))
    /\ UNCHANGED <<collaborator_calls, outsideTreasurer>>

\* report_payment_event of the `sending` event returns, and onPaymentRequired with
\* it; or it raises, and nothing in onPaymentRequired catches it
SendingReported(raised) ==
    /\ treasurer.pc = "report_sending"
    /\ treasurer' =
         IF raised THEN PortDone(treasurer, PortRaised("Exception"))
         ELSE PortDone(treasurer,
                PortReturned(X402Authorization(treasurer.payment, treasurer.authorization_id,
                                               treasurer.authorized_req.requirement)))
    /\ UNCHANGED <<collaborator_calls, outsideTreasurer>>

\* `reason` of a failed or rejected event: context.get("reason", default) for a
\* non-empty dict, the default otherwise
event_reason(context, default) ==
    IF context # None /\ context # <<>> THEN GetOr(context, "reason", default) ELSE default

\* the event onStatus reports for a status, or None
status_event(status, context) ==
    IF status = "payment-submitted" THEN PaymentEventSending
    ELSE IF status = "payment-failed"
      THEN PaymentEventError(event_reason(context, "Payment processing failed"))
    ELSE IF status = "payment-rejected"
      THEN PaymentEventRejected(event_reason(context, "Payment rejected by server"))
    ELSE IF status \in {"payment-verified", "payment-completed"} THEN PaymentEventAccepted
    ELSE None

\* AmpersendTreasurer.onStatus, up to its early return or the await of
\* report_payment_event
OnStatus(status, authorization, context) ==
    /\ treasurer.pc = "idle"
    /\ LET event == status_event(status, context)
           called == [treasurer EXCEPT !.impl = "AmpersendTreasurer", !.method = "onStatus",
                                       !.status = status, !.authorization = authorization,
                                       !.event = event]
       IN  IF event = None
             THEN /\ treasurer' = PortDone(called, PortReturned(None))
                  /\ UNCHANGED collaborator_calls
             ELSE /\ treasurer' = [called EXCEPT !.pc = "report_status"]
                  /\ collaborator_calls' = Append(collaborator_calls,
                       ReportPaymentEventCall(authorization.authorization_id,
                                              authorization.payment, event))
    /\ UNCHANGED outsideTreasurer

\* report_payment_event returns, and onStatus with it; or it raises, and nothing in
\* onStatus catches it
StatusReported(raised) ==
    /\ treasurer.pc = "report_status"
    /\ treasurer' = IF raised THEN PortDone(treasurer, PortRaised("Exception"))
                    ELSE PortDone(treasurer, PortReturned(None))
    /\ UNCHANGED <<collaborator_calls, outsideTreasurer>>

\* NaiveX402Authorizer.authorize: no await inside, one step from call to outcome
NaiveAuthorize(payment_required, wallet_outcome, hex) ==
    /\ treasurer.pc = "idle"
    /\ LET called == [treasurer EXCEPT !.impl = "NaiveX402Authorizer", !.method = "authorize",
                                       !.payment_required = payment_required]
       IN  IF payment_required.accepts = <<>>
             THEN /\ treasurer' = PortDone(called, PortRaised("IndexError"))
                  /\ UNCHANGED collaborator_calls
           ELSE IF wallet_outcome = "raise"
             THEN /\ treasurer' = PortDone(called, PortRaised("Exception"))
                  /\ collaborator_calls' = Append(collaborator_calls,
                       CreatePaymentCall(payment_required.accepts[1]))
           ELSE LET payment == SignedPayment(payment_required.accepts[1], wallet_outcome)
                IN  /\ treasurer' = PortDone([called EXCEPT !.payment = payment,
                                                            !.authorization_id = hex],
                                             PortReturned([payment |-> payment,
                                                           authorization_id |-> hex]))
                    /\ collaborator_calls' = collaborator_calls \o
                         <<CreatePaymentCall(payment_required.accepts[1]), Uuid4Call(hex)>>
    /\ UNCHANGED outsideTreasurer

\* NaiveX402Authorizer.onStatus: `pass`
NaiveOnStatus(status, authorization, context) ==
    /\ treasurer.pc = "idle"
    /\ treasurer' = PortDone([treasurer EXCEPT !.impl = "NaiveX402Authorizer",
                                               !.method = "onStatus", !.status = status,
                                               !.authorization = authorization],
                             PortReturned(None))
    /\ UNCHANGED <<collaborator_calls, outsideTreasurer>>

\* the replies the service may give to the pending authorize_payment
PendingAuthorizeReplies ==
    IF treasurer.pc = "authorize_payment"
      THEN AuthorizeReplies(treasurer.payment_required) ELSE {}

NextTreasurer ==
    \/ \E payment_required \in PortEnvelopes : OnPaymentRequired(payment_required)
    \/ \E result \in PendingAuthorizeReplies,
          wallet_outcome \in WalletOutcomes, hex \in AuthorizationIds :
            AuthorizePaymentReturns(result, wallet_outcome, hex)
    \/ AuthorizePaymentRaises
    \/ \E raised \in BOOLEAN : SendingReported(raised)
    \/ \E status \in PaymentStatuses, authorization \in StatusAuthorizations,
          context \in StatusContexts :
            \/ OnStatus(status, authorization, context)
            \/ NaiveOnStatus(status, authorization, context)
    \/ \E raised \in BOOLEAN : StatusReported(raised)
    \/ \E payment_required \in PortEnvelopes, wallet_outcome \in WalletOutcomes,
          hex \in AuthorizationIds :
            NaiveAuthorize(payment_required, wallet_outcome, hex)

-----------------------------------------------------------------------------
(* Canonical operation hash (ERC-4337 v0.7) *)

\* A hex string: its prefix ("0x", "0X" or none), the value its digits spell, and
\* whether the digits are written in lower case or not.
HexStr(prefix, body, case) == [prefix |-> prefix, body |-> body, case |-> case]

\* what the digits of a hex string spell: nothing, an address, some bytes (or a digest)
NoDigits == [tag |-> "empty"]
AddrDigits(a) == [tag |-> "addr", digits |-> a]
ByteDigits(bytes) == [tag |-> "hex", bytes |-> bytes]

\* the str ""
EmptyStr == HexStr("", NoDigits, "lower")

\* str.lower()
lower(h) == [prefix |-> IF h.prefix = "0X" THEN "0x" ELSE h.prefix,
             body |-> h.body, case |-> "lower"]

\* `not s` for an optional str
Falsy(s) == s = None \/ s = EmptyStr

\* str.removeprefix("0x")
removeprefix_0x(h) == IF h.prefix = "0x" THEN [h EXCEPT !.prefix = ""] ELSE h

\* a bytes value: the sequence of its parts
Bytes(parts) == [tag |-> "bytes", parts |-> parts]

\* b1 + b2 on bytes, an exception on either side coming first
Concat(b1, b2) ==
    IF IsRaise(b1) THEN b1 ELSE IF IsRaise(b2) THEN b2 ELSE Bytes(b1.parts \o b2.parts)

\* bytes.fromhex(s): the digits' value whatever their case; raises on a non-digit
fromhex(h) ==
    IF h.prefix # "" THEN Raise("ValueError")
    ELSE IF h.body.tag = "empty" THEN Bytes(<<>>)
    ELSE IF h.body.tag = "hex" THEN Bytes(h.body.bytes)
    ELSE Bytes(<<h.body>>)

\* an integer as the server may write it: a native int ("native"), or a string of
\* decimal digits n without prefix ("dec"), after "0x" ("hex") or after "0X" ("HEX")
IntValue(kind, n) == [kind |-> kind, n |-> n]

\* a Python int
PyInt(n) == [tag |-> "int", n |-> n]

\* int(digits, 16) for a string of the digits 0-9
RECURSIVE int_base16(_)
int_base16(digits) ==
    IF digits < 10 THEN digits ELSE (digits % 10) + 16 * int_base16(digits \div 10)

\* a hex string of bytes: "0x" is no bytes
BytesHex(bytes) == HexStr("0x", IF bytes = <<>> THEN NoDigits ELSE ByteDigits(bytes), "lower")

\* the width of one half of a packed 32-byte word (128 in ERC-4337), scaled down
HalfWordBits == 3

RECURSIVE Pow2(_)
Pow2(n) == IF n = 0 THEN 1 ELSE 2 * Pow2(n - 1)

RECURSIVE BitOr(_, _)
BitOr(a, b) ==
    IF a = 0 THEN b
    ELSE IF b = 0 THEN a
    ELSE (IF a % 2 = 1 \/ b % 2 = 1 THEN 1 ELSE 0) + 2 * BitOr(a \div 2, b \div 2)

\* n.to_bytes(length, "big") of an unsigned integer
to_bytes_big(n, bits) ==
    IF n >= Pow2(bits) THEN Raise("OverflowError") ELSE Bytes(<<<<"uint", bits, n>>>>)

\* the local helper to_bytes of _compute_user_op_hash
to_bytes(hex_str) == IF Falsy(hex_str) THEN Bytes(<<>>) ELSE fromhex(removeprefix_0x(hex_str))

\* mutant: every string is read in base 10
to_int_base10(value) ==
    IF value = None THEN PyInt(0)
    ELSE IF value = EmptyStr THEN Raise("ValueError")
    ELSE IF value.kind \in {"native", "hex", "dec"} THEN PyInt(value.n)
    ELSE Raise("ValueError")

\* the local helper to_int: an int as it is, a str in base 16 after "0x" and in
\* base 10 otherwise (int() raises on "" and on "0X.."), anything else 0; an
\* absent field is given the default 0
to_int(value) ==
    IF value = None THEN PyInt(0)
    ELSE IF value = EmptyStr THEN Raise("ValueError")
    ELSE IF value.kind = "native" THEN PyInt(value.n)
    ELSE IF value.kind = "hex" THEN PyInt(int_base16(value.n))
    ELSE IF value.kind = "dec" THEN PyInt(value.n)
    ELSE Raise("ValueError")

\* the digits of the address of 20 zero bytes
ZeroDigits == "0000000000000000000000000000000000000000"

\* the local helper to_address: 20 bytes
to_address(addr) ==
    IF Falsy(addr) THEN Bytes(<<AddrDigits(ZeroDigits)>>)
    ELSE LET hex == removeprefix_0x(addr)
         IN  IF hex.prefix = "" /\ hex.body.tag = "empty"
               THEN Bytes(<<AddrDigits(ZeroDigits)>>)      \* "".zfill(40)
               ELSE fromhex(hex)

\* an ideal (collision-free) keccak: the digest stands for its preimage
keccak(data) == [tag |-> "keccak", of |-> data]

ENTRYPOINT_V07_ADDRESS == HexStr("0x", AddrDigits("0000000071727De22E5E9d8BAf0edAc6f37da032"), "mixed")

DEFAULT_CHAIN_ID == 84532

\* Build initCode: factory + factoryData (or empty)
init_code(user_op) ==
    IF ~Falsy(Get(user_op, "factory"))
      THEN Concat(to_address(user_op.factory),
                  to_bytes(GetOr(user_op, "factoryData", BytesHex(<<>>))))
      ELSE Bytes(<<>>)

\* Build paymasterAndData: paymaster + gasLimits (16 bytes each) + data
paymaster_and_data(user_op) ==
    IF ~Falsy(Get(user_op, "paymaster"))
      THEN Concat(Concat(to_address(user_op.paymaster),
                         to_bytes_big(to_int(Get(user_op, "paymasterVerificationGasLimit")).n,
                                      HalfWordBits)),
                  Concat(to_bytes_big(to_int(Get(user_op, "paymasterPostOpGasLimit")).n,
                                      HalfWordBits),
                         to_bytes(GetOr(user_op, "paymasterData", BytesHex(<<>>)))))
      ELSE Bytes(<<>>)

\* mutant: the high half is not shifted
pack_unshifted(high, low) == BitOr(high, low)

\* mutant: the high half is shifted by one bit less than the width of the low half
pack_overlapping(high, low) == BitOr(high * Pow2(HalfWordBits - 1), low)

\* (high << 128) | low
pack(high, low) == BitOr(high * Pow2(HalfWordBits), low)

\* "0x" + keccak(final_encoded).hex(), or the exception of the first conversion
\* that raises: the fields are extracted first, then the byte strings are built
compute_user_op_hash(user_op, chain_id) ==
    LET sender == to_address(Get(user_op, "sender"))
        nonce == to_int(Get(user_op, "nonce"))
        call_data == to_bytes(GetOr(user_op, "callData", BytesHex(<<>>)))
        call_gas_limit == to_int(Get(user_op, "callGasLimit"))
        verification_gas_limit == to_int(Get(user_op, "verificationGasLimit"))
        pre_verification_gas == to_int(Get(user_op, "preVerificationGas"))
        max_fee_per_gas == to_int(Get(user_op, "maxFeePerGas"))
        max_priority_fee_per_gas == to_int(Get(user_op, "maxPriorityFeePerGas"))
        paymaster_verification_gas_limit ==
            to_int(Get(user_op, "paymasterVerificationGasLimit"))
        paymaster_post_op_gas_limit == to_int(Get(user_op, "paymasterPostOpGasLimit"))
        paymaster_data == to_bytes(GetOr(user_op, "paymasterData", BytesHex(<<>>)))
        extract_raised ==
            SelectSeq(<<sender, nonce, call_data, call_gas_limit, verification_gas_limit,
                        pre_verification_gas, max_fee_per_gas, max_priority_fee_per_gas,
                        paymaster_verification_gas_limit, paymaster_post_op_gas_limit,
                        paymaster_data>>, IsRaise)
        initCode == init_code(user_op)
        paymasterAndData == paymaster_and_data(user_op)
        account_gas_limits == pack(verification_gas_limit.n, call_gas_limit.n)
        gas_fees == pack(max_priority_fee_per_gas.n, max_fee_per_gas.n)
        gas_limits_word == to_bytes_big(account_gas_limits, 2 * HalfWordBits)
        gas_fees_word == to_bytes_big(gas_fees, 2 * HalfWordBits)
        build_raised == SelectSeq(<<initCode, paymasterAndData, gas_limits_word,
                                    gas_fees_word>>, IsRaise)
        inner_encoded ==
            [sender |-> sender,
             nonce |-> nonce.n,
             init_code_hash |-> keccak(initCode),
             call_data_hash |-> keccak(call_data),
             account_gas_limits |-> gas_limits_word,
             pre_verification_gas |-> pre_verification_gas.n,
             gas_fees |-> gas_fees_word,
             paymaster_hash |-> keccak(paymasterAndData)]
        final_encoded == [inner_hash |-> keccak(inner_encoded),
                          entrypoint |-> to_address(ENTRYPOINT_V07_ADDRESS),
                          chain_id |-> chain_id]
    IN  IF extract_raised # <<>> THEN extract_raised[1]
        ELSE IF build_raised # <<>> THEN build_raised[1]
        ELSE HexStr("0x", keccak(final_encoded), "lower")

-----------------------------------------------------------------------------
(* The hasher on its own: two calls of _compute_user_op_hash *)

HashAddr(digits, case) == HexStr("0x", AddrDigits(digits), case)

SenderDigits == "1111111111111111111111111111111111111111"
FactoryDigits == "def0000000000000000000000000000000000000"
PaymasterDigits == "abc0000000000000000000000000000000000000"
OtherDigits == "9999999999999999999999999999999999999999"

\* an operation with a deployment and a fee payer: every field the hash reads
FullUserOp ==
    [sender |-> HashAddr(SenderDigits, "lower"),
     nonce |-> IntValue("hex", 1),
     factory |-> HashAddr(FactoryDigits, "lower"),
     factoryData |-> BytesHex(<<0>>),
     callData |-> BytesHex(<<1>>),
     callGasLimit |-> IntValue("hex", 1),
     verificationGasLimit |-> IntValue("hex", 1),
     preVerificationGas |-> IntValue("hex", 1),
     maxFeePerGas |-> IntValue("hex", 1),
     maxPriorityFeePerGas |-> IntValue("hex", 1),
     paymaster |-> HashAddr(PaymasterDigits, "lower"),
     paymasterVerificationGasLimit |-> IntValue("hex", 1),
     paymasterPostOpGasLimit |-> IntValue("hex", 1),
     paymasterData |-> BytesHex(<<2>>)]

\* d without the key k
Without(d, k) == [x \in DOMAIN d \ {k} |-> d[x]]

\* the operations the edits start from: with or without deployment, with or
\* without fee payer, and with a call gas limit that does not fit its half word
HashShapes ==
    {FullUserOp, Without(FullUserOp, "factory"), Without(FullUserOp, "paymaster"),
     [FullUserOp EXCEPT !.callGasLimit = IntValue("native", Pow2(HalfWordBits))]}

UserOpIntFields ==
    {"nonce", "callGasLimit", "verificationGasLimit", "preVerificationGas", "maxFeePerGas",
     "maxPriorityFeePerGas", "paymasterVerificationGasLimit", "paymasterPostOpGasLimit"}

\* the integers that occupy half a word, or 16 bytes of paymasterAndData
UserOpHalfWordFields == UserOpIntFields \ {"nonce", "preVerificationGas"}

UserOpAddressFields == {"sender", "factory", "paymaster"}

UserOpBytesFields == {"factoryData", "callData", "paymasterData"}

\* other values a field may take: another value, the same value in another
\* notation, and for the half-word integers the first value that does not fit
FieldEdits(k) ==
    IF k \in UserOpIntFields
      THEN {IntValue("hex", 0), IntValue("hex", 2), IntValue("dec", 1)}
           \cup (IF k \in UserOpHalfWordFields
                   THEN {IntValue("native", Pow2(HalfWordBits))} ELSE {})
    ELSE IF k = "sender"
      THEN {HashAddr(OtherDigits, "lower"), HashAddr(SenderDigits, "mixed")}
    ELSE IF k \in UserOpAddressFields THEN {HashAddr(OtherDigits, "lower")}
    ELSE IF k \in UserOpBytesFields THEN {BytesHex(<<9>>)}
    ELSE {HexStr("0x", ByteDigits(<<7>>), "lower")}

\* the least and the greatest value of a half word
HalfWordEnds == {0, Pow2(HalfWordBits) - 1}

\* operations whose two gas limits, or two fees, are at the ends of their half words
PackedUserOps ==
    {[FullUserOp EXCEPT !.verificationGasLimit = IntValue("native", v),
                        !.callGasLimit = IntValue("native", c)] : v, c \in HalfWordEnds}
    \cup {[FullUserOp EXCEPT !.maxPriorityFeePerGas = IntValue("native", v),
                             !.maxFeePerGas = IntValue("native", c)] : v, c \in HalfWordEnds}

\* sixteen as an int, as "16", as "0x10" and as "0X10"; one as an int
Notations(k) ==
    IF k \in UserOpHalfWordFields THEN {IntValue("native", 1), IntValue("HEX", 1)}
    ELSE {IntValue("native", 16), IntValue("dec", 16), IntValue("hex", 10),
          IntValue("HEX", 10)}

\* the operation with one integer written in another notation
NotationUserOps ==
    UNION {{(k :> v) @@ FullUserOp : v \in Notations(k)} : k \in UserOpIntFields}

\* operations some fields of which are absent: one, those of the deployment,
\* those of the fee payer, all but the sender, all
AbsentUserOps ==
    {Without(FullUserOp, k) : k \in DOMAIN FullUserOp}
    \cup {[k \in DOMAIN FullUserOp \ {"factory", "factoryData"} |-> FullUserOp[k]],
          [k \in DOMAIN FullUserOp \ {"paymaster", "paymasterVerificationGasLimit",
                                      "paymasterPostOpGasLimit", "paymasterData"}
              |-> FullUserOp[k]],
          [k \in {"sender"} |-> FullUserOp[k]],
          <<>>}
    \cup {Without(("nonce" :> IntValue("dec", 16)) @@ FullUserOp, "paymasterData")}

\* the values that stand for no value: null and the empty string for every field,
\* zero for an integer, "0x" for a byte string, the zero address for the sender
EmptyValues(k) ==
    {None, EmptyStr} \cup
    (IF k \in UserOpIntFields
       THEN {IntValue("native", 0), IntValue("dec", 0), IntValue("hex", 0)}
     ELSE IF k \in UserOpBytesFields THEN {BytesHex(<<>>)}
     ELSE IF k = "sender" THEN {HashAddr(ZeroDigits, "lower"), BytesHex(<<>>)}
     ELSE {BytesHex(<<>>), HashAddr(ZeroDigits, "lower")})

\* the operation with one field given as a value that stands for no value
EmptyUserOps ==
    UNION {{(k :> v) @@ FullUserOp : v \in EmptyValues(k)} : k \in DOMAIN FullUserOp}
    \cup {("nonce" :> IntValue("hex", 10)) @@ ("paymasterData" :> BytesHex(<<>>))
             @@ FullUserOp}

\* the operations handed to the hash: each shape, and each shape with one field
\* given another value (`signature` is a field the hash does not read)
HashUserOps ==
    HashShapes \cup PackedUserOps \cup NotationUserOps \cup AbsentUserOps \cup EmptyUserOps \cup
    UNION {{(k :> v) @@ shape : v \in FieldEdits(k)} :
              shape \in HashShapes, k \in DOMAIN FullUserOp \cup {"signature"}}

\* the chains a client may be constructed for
HashChainIds == {DEFAULT_CHAIN_ID, 8453}

IdleHasher == [pc |-> "idle", first |-> None, second |-> None]

\* hash = client._compute_user_op_hash(user_op), on a client for chain_id
ComputeUserOpHash(user_op, chain_id) ==
    /\ hasher.pc \in {"idle", "once"}
    /\ LET call == [user_op |-> user_op, chain_id |-> chain_id,
                    result |-> compute_user_op_hash(user_op, chain_id)]
       IN  hasher' = IF hasher.pc = "idle"
                       THEN [hasher EXCEPT !.pc = "once", !.first = call]
                       ELSE [hasher EXCEPT !.pc = "twice", !.second = call]
    /\ UNCHANGED outsideHasher

NextHasher ==
    \E user_op \in HashUserOps, chain_id \in HashChainIds :
        ComputeUserOpHash(user_op, chain_id)

-----------------------------------------------------------------------------
(* AmpersendManagementClient.create_agent and the prepare-response verifier *)

ApiError(message) == [tag |-> "raise", exc |-> "ApiError", message |-> message]

\* mutant: Layer 2 is left out, the server's hash is trusted
verify_without_hash_check(response, agent_key_address, chain_id) ==
    LET user_op == GetOr(response, "unsigned_user_op", <<>>)
        sender == Get(user_op, "sender")
        agent_address == GetOr(response, "agent_address", EmptyStr)
        owners == GetOr(response, "owners", <<>>)
        owner_addresses == {lower(owners[i]) : i \in DOMAIN owners}
    IN  IF user_op = None THEN Raise("AttributeError")
        ELSE IF Get(user_op, "factory") = None
          THEN ApiError("not a deployment operation (factory is null)")
        ELSE IF Falsy(sender) \/ lower(sender) # lower(agent_address)
          THEN ApiError("sender mismatch")
        ELSE IF lower(agent_key_address) \notin owner_addresses
          THEN ApiError("agent key not in owners list")
        ELSE IF "user_op_hash" \notin DOMAIN response
          THEN ApiError("hash mismatch")
        ELSE [tag |-> "ok"]

\* mutant: Check 1 is left out, an operation without factory goes on to the other checks
verify_without_deployment_check(response, agent_key_address, chain_id) ==
    LET user_op == GetOr(response, "unsigned_user_op", <<>>)
        sender == Get(user_op, "sender")
        agent_address == GetOr(response, "agent_address", EmptyStr)
        owners == GetOr(response, "owners", <<>>)
        owner_addresses == {lower(owners[i]) : i \in DOMAIN owners}
        computed_hash == compute_user_op_hash(user_op, chain_id)
        server_hash == GetOr(response, "user_op_hash", EmptyStr)
    IN  IF user_op = None THEN Raise("AttributeError")
        ELSE IF Falsy(sender) \/ lower(sender) # lower(agent_address)
          THEN ApiError("sender mismatch")
        ELSE IF lower(agent_key_address) \notin owner_addresses
          THEN ApiError("agent key not in owners list")
        ELSE IF lower(computed_hash) # lower(server_hash)
          THEN ApiError("hash mismatch")
        ELSE [tag |-> "ok"]

\* mutant: Check 2 compares the two addresses as written
verify_sender_case_sensitive(response, agent_key_address, chain_id) ==
    LET user_op == GetOr(response, "unsigned_user_op", <<>>)
        sender == Get(user_op, "sender")
        agent_address == GetOr(response, "agent_address", EmptyStr)
        owners == GetOr(response, "owners", <<>>)
        owner_addresses == {lower(owners[i]) : i \in DOMAIN owners}
        computed_hash == compute_user_op_hash(user_op, chain_id)
        server_hash == GetOr(response, "user_op_hash", EmptyStr)
    IN  IF user_op = None THEN Raise("AttributeError")
        ELSE IF IsRaise(computed_hash) /\ Get(user_op, "factory") # None
                /\ ~(Falsy(sender) \/ sender # agent_address)
                /\ lower(agent_key_address) \in owner_addresses
          THEN computed_hash
        \* Layer 1, Check 1: This is a deployment (factory must be set)
        ELSE IF Get(user_op, "factory") = None
          THEN ApiError("not a deployment operation (factory is null)")
        \* Layer 1, Check 2: Deploying the expected address
        ELSE IF Falsy(sender) \/ sender # agent_address
          THEN ApiError("sender mismatch")
        \* Layer 1, Check 3: Our key is in the owners list
        ELSE IF lower(agent_key_address) \notin owner_addresses
          THEN ApiError("agent key not in owners list")
        \* Layer 2: Verify hash matches the UserOp we're signing
        ELSE IF lower(computed_hash) # lower(server_hash)
          THEN ApiError("hash mismatch")
        ELSE [tag |-> "ok"]

\* mutant: Check 3 looks the key up among the owners as written
verify_owners_case_sensitive(response, agent_key_address, chain_id) ==
    LET user_op == GetOr(response, "unsigned_user_op", <<>>)
        sender == Get(user_op, "sender")
        agent_address == GetOr(response, "agent_address", EmptyStr)
        owners == GetOr(response, "owners", <<>>)
        owner_addresses == {lower(owners[i]) : i \in DOMAIN owners}
        computed_hash == compute_user_op_hash(user_op, chain_id)
        server_hash == GetOr(response, "user_op_hash", EmptyStr)
    IN  IF user_op = None THEN Raise("AttributeError")
        ELSE IF IsRaise(computed_hash) /\ Get(user_op, "factory") # None
                /\ ~(Falsy(sender) \/ lower(sender) # lower(agent_address))
                /\ agent_key_address \in Range(owners)
          THEN computed_hash
        \* Layer 1, Check 1: This is a deployment (factory must be set)
        ELSE IF Get(user_op, "factory") = None
          THEN ApiError("not a deployment operation (factory is null)")
        \* Layer 1, Check 2: Deploying the expected address
        ELSE IF Falsy(sender) \/ lower(sender) # lower(agent_address)
          THEN ApiError("sender mismatch")
        \* Layer 1, Check 3: Our key is in the owners list
        ELSE IF agent_key_address \notin Range(owners)
          THEN ApiError("agent key not in owners list")
        \* Layer 2: Verify hash matches the UserOp we're signing
        ELSE IF lower(computed_hash) # lower(server_hash)
          THEN ApiError("hash mismatch")
        ELSE [tag |-> "ok"]

\* mutant: Layer 2 compares the two hashes as written
verify_hash_case_sensitive(response, agent_key_address, chain_id) ==
    LET user_op == GetOr(response, "unsigned_user_op", <<>>)
        sender == Get(user_op, "sender")
        agent_address == GetOr(response, "agent_address", EmptyStr)
        owners == GetOr(response, "owners", <<>>)
        owner_addresses == {lower(owners[i]) : i \in DOMAIN owners}
        computed_hash == compute_user_op_hash(user_op, chain_id)
        server_hash == GetOr(response, "user_op_hash", EmptyStr)
    IN  IF user_op = None THEN Raise("AttributeError")
        ELSE IF IsRaise(computed_hash) /\ Get(user_op, "factory") # None
                /\ ~(Falsy(sender) \/ lower(sender) # lower(agent_address))
                /\ lower(agent_key_address) \in owner_addresses
          THEN computed_hash
        \* Layer 1, Check 1: This is a deployment (factory must be set)
        ELSE IF Get(user_op, "factory") = None
          THEN ApiError("not a deployment operation (factory is null)")
        \* Layer 1, Check 2: Deploying the expected address
        ELSE IF Falsy(sender) \/ lower(sender) # lower(agent_address)
          THEN ApiError("sender mismatch")
        \* Layer 1, Check 3: Our key is in the owners list
        ELSE IF lower(agent_key_address) \notin owner_addresses
          THEN ApiError("agent key not in owners list")
        \* Layer 2: Verify hash matches the UserOp we're signing
        ELSE IF computed_hash # server_hash
          THEN ApiError("hash mismatch")
        ELSE [tag |-> "ok"]

\* mutant: the checks run in the opposite order, the hash first
verify_checks_reversed(response, agent_key_address, chain_id) ==
    LET user_op == GetOr(response, "unsigned_user_op", <<>>)
        sender == Get(user_op, "sender")
        agent_address == GetOr(response, "agent_address", EmptyStr)
        owners == GetOr(response, "owners", <<>>)
        owner_addresses == {lower(owners[i]) : i \in DOMAIN owners}
        computed_hash == compute_user_op_hash(user_op, chain_id)
        server_hash == GetOr(response, "user_op_hash", EmptyStr)
    IN  IF user_op = None THEN Raise("AttributeError")
        ELSE IF IsRaise(computed_hash) THEN computed_hash
        ELSE IF lower(computed_hash) # lower(server_hash)
          THEN ApiError("hash mismatch")
        ELSE IF lower(agent_key_address) \notin owner_addresses
          THEN ApiError("agent key not in owners list")
        ELSE IF Falsy(sender) \/ lower(sender) # lower(agent_address)
          THEN ApiError("sender mismatch")
        ELSE IF Get(user_op, "factory") = None
          THEN ApiError("not a deployment operation (factory is null)")
        ELSE [tag |-> "ok"]

\* Verify the prepare response before signing: "ok", or the exception raised
verify_prepare_response(response, agent_key_address, chain_id) ==
    LET user_op == GetOr(response, "unsigned_user_op", <<>>)
        sender == Get(user_op, "sender")
        agent_address == GetOr(response, "agent_address", EmptyStr)
        owners == GetOr(response, "owners", <<>>)
        owner_addresses == {lower(owners[i]) : i \in DOMAIN owners}
        computed_hash == compute_user_op_hash(user_op, chain_id)
        server_hash == GetOr(response, "user_op_hash", EmptyStr)
    IN  IF user_op = None THEN Raise("AttributeError")
        ELSE IF IsRaise(computed_hash) /\ Get(user_op, "factory") # None
                /\ ~(Falsy(sender) \/ lower(sender) # lower(agent_address))
                /\ lower(agent_key_address) \in owner_addresses
          THEN computed_hash
        \* Layer 1, Check 1: This is a deployment (factory must be set)
        ELSE IF Get(user_op, "factory") = None
          THEN ApiError("not a deployment operation (factory is null)")
        \* Layer 1, Check 2: Deploying the expected address
        ELSE IF Falsy(sender) \/ lower(sender) # lower(agent_address)
          THEN ApiError("sender mismatch")
        \* Layer 1, Check 3: Our key is in the owners list
        ELSE IF lower(agent_key_address) \notin owner_addresses
          THEN ApiError("agent key not in owners list")
        \* Layer 2: Verify hash matches the UserOp we're signing
        ELSE IF lower(computed_hash) # lower(server_hash)
          THEN ApiError("hash mismatch")
        ELSE [tag |-> "ok"]

\* SpendConfig.to_api_dict: limits become strings
to_api_dict(spend_config) ==
    LET str(limit) == IF limit = None THEN None ELSE [tag |-> "str", of |-> limit.n]
    IN  [auto_topup_allowed |-> spend_config.auto_topup_allowed,
         daily_limit |-> str(spend_config.daily_limit),
         monthly_limit |-> str(spend_config.monthly_limit),
         per_transaction_limit |-> str(spend_config.per_transaction_limit)]

\* Account.from_key(private_key).address: the checksummed (mixed-case) address
AddressOf(private_key) == HexStr("0x", AddrDigits(private_key), "mixed")

\* account.sign_message(encode_defunct(primitive=hash_bytes))
sign_message(private_key, hash_bytes) == [signer |-> private_key, message |-> hash_bytes]

\* mutant: the payload sends the whole prepare response back instead of the token
create_payload_full(prepare_response, signature, name, spend_config, authorized_sellers) ==
    [prepare_response |-> prepare_response,
     signature |-> signature,
     name |-> name,
     spend_config |-> IF spend_config # None THEN to_api_dict(spend_config) ELSE None,
     authorized_sellers |-> authorized_sellers]

\* 4. Build create payload (token-based, not full prepare_response)
create_payload(prepare_response, signature, name, spend_config, authorized_sellers) ==
    [token |-> prepare_response.token,
     signature |-> signature,
     name |-> name,
     spend_config |-> IF spend_config # None THEN to_api_dict(spend_config) ELSE None,
     authorized_sellers |-> authorized_sellers]

\* -- the environment of create_agent: callers and servers --

AgentAddr(case) == HexStr("0x", AddrDigits("1111111111111111111111111111111111111111"), case)

OtherAddr == HexStr("0x", AddrDigits("9999999999999999999999999999999999999999"), "lower")

RecoveryAddr == HexStr("0x", AddrDigits("2222222222222222222222222222222222222222"), "lower")

FactoryAddr == HexStr("0x", AddrDigits("def0000000000000000000000000000000000000"), "lower")

PrivateKeys == {"key-ab", "key-cd"}

\* the fields of an operation the model does not vary
BaseUserOp ==
    [factoryData |-> BytesHex(<<0>>), callData |-> BytesHex(<<>>),
     callGasLimit |-> IntValue("hex", 1), verificationGasLimit |-> IntValue("hex", 1),
     preVerificationGas |-> IntValue("hex", 1), maxFeePerGas |-> IntValue("hex", 1),
     maxPriorityFeePerGas |-> IntValue("hex", 1)]

\* the operations a server may send: every field present, null or absent
UserOps ==
    {sender @@ factory @@ nonce @@ BaseUserOp :
        sender \in {<<>>, ("sender" :> None), ("sender" :> EmptyStr),
                    ("sender" :> AgentAddr("lower")), ("sender" :> AgentAddr("mixed")),
                    ("sender" :> OtherAddr)},
        factory \in {<<>>, ("factory" :> None), ("factory" :> EmptyStr),
                     ("factory" :> FactoryAddr)},
        nonce \in {("nonce" :> IntValue("hex", n)) : n \in {0, 1}}}

\* call data whose prefix removeprefix("0x") leaves in place: bytes.fromhex raises
MalformedCallData == HexStr("0X", ByteDigits(<<1>>), "lower")

\* operations the hash cannot be computed of
UnhashableUserOps ==
    {[user_op EXCEPT !.callData = MalformedCallData] :
        user_op \in {u \in UserOps : u.nonce.n = 0}}

\* the hashes a server may send with operation user_op
ServerHashes(user_op) ==
    LET honest == compute_user_op_hash(user_op, DEFAULT_CHAIN_ID)
        other == compute_user_op_hash(("nonce" :> IntValue("hex", 7)) @@ user_op,
                                      DEFAULT_CHAIN_ID)
    IN  {<<>>, ("user_op_hash" :> honest),
         ("user_op_hash" :> [honest EXCEPT !.case = "mixed"]),
         ("user_op_hash" :> [honest EXCEPT !.prefix = "0X", !.case = "mixed"]),
         ("user_op_hash" :> other)}

\* the prepare responses a server may send to the owner of private_key
PrepareResponses ==
    UNION {
      {op @@ hash @@ agent_address @@ owners @@ token @@ [expires_at |-> 999999999] :
          hash \in ServerHashes(GetOr(op, "unsigned_user_op", <<>>)),
          agent_address \in {<<>>, ("agent_address" :> AgentAddr("lower")),
                             ("agent_address" :> OtherAddr)},
          owners \in {<<>>, ("owners" :> <<>>), ("owners" :> <<RecoveryAddr>>),
                      ("owners" :> <<RecoveryAddr, lower(AddressOf("key-ab"))>>),
                      ("owners" :> <<AddressOf("key-cd")>>)},
          token \in {<<>>, ("token" :> "test-token-abc123")}} :
      op \in {("unsigned_user_op" :> user_op) : user_op \in UserOps} \cup {<<>>}}
    \cup {("unsigned_user_op" :> None) @@ [token |-> "test-token-abc123"]}
    \cup UNION {
      {("unsigned_user_op" :> user_op) @@ hash @@ agent_address @@ owners
              @@ [token |-> "test-token-abc123", expires_at |-> 999999999] :
            hash \in {<<>>, ("user_op_hash" :>
                               compute_user_op_hash([user_op EXCEPT !.callData = BytesHex(<<1>>)],
                                                    DEFAULT_CHAIN_ID))},
            agent_address \in {<<>>, ("agent_address" :> AgentAddr("lower")),
                               ("agent_address" :> OtherAddr)},
            owners \in {("owners" :> <<RecoveryAddr>>),
                        ("owners" :> <<RecoveryAddr, lower(AddressOf("key-ab"))>>),
                        ("owners" :> <<AddressOf("key-cd")>>)}} :
      user_op \in UnhashableUserOps}

SpendConfigs ==
    {None,
     [auto_topup_allowed |-> FALSE, daily_limit |-> IntValue("int", 1000000), monthly_limit |-> None,
      per_transaction_limit |-> IntValue("int", 50000)]}

\* a Python list value (kept apart from None)
List(items) == [tag |-> "list", items |-> items]

SellerLists == {None, List(<<"0x3333333333333333333333333333333333333333">>)}

AgentRecords == {[address |-> AgentAddr("lower"), name |-> "test-agent"]}

IdleMgmt ==
    [pc |-> "idle", name |-> None, private_key |-> None, spend_config |-> None,
     authorized_sellers |-> None, prepare_response |-> None, verified |-> None,
     result |-> None]

\* create_agent up to its first await: derive the address, POST the prepare request
CreateAgent(name, private_key, spend_config, authorized_sellers) ==
    /\ mgmt.pc = "idle"
    /\ mgmt' = [mgmt EXCEPT !.pc = "prepare", !.name = name, !.private_key = private_key,
                            !.spend_config = spend_config,
                            !.authorized_sellers = authorized_sellers]
    /\ http_requests' = Append(http_requests,
         [method |-> "POST", path |-> "/api/v1/sdk/agents/prepare",
          json |-> [agent_key_address |-> AddressOf(private_key)]])
    /\ UNCHANGED <<signatures, outsideMgmt>>

\* the prepare request returns JSON: verify, sign, build the payload, POST the submit
PrepareResponse(prepare_response) ==
    /\ mgmt.pc = "prepare"
    /\ LET agent_key_address == AddressOf(mgmt.private_key)
           verdict == verify_prepare_response(prepare_response, agent_key_address,
                                              DEFAULT_CHAIN_ID)
           hash_bytes == fromhex(removeprefix_0x(prepare_response.user_op_hash))
           signature == sign_message(mgmt.private_key, hash_bytes)
           seen == [mgmt EXCEPT !.prepare_response = prepare_response, !.verified = verdict]
       IN  IF IsRaise(verdict)
             THEN /\ mgmt' = [seen EXCEPT !.pc = "done", !.result = verdict]
                  /\ UNCHANGED <<http_requests, signatures>>
           ELSE IF IsRaise(hash_bytes)
             THEN /\ mgmt' = [seen EXCEPT !.pc = "done", !.result = hash_bytes]
                  /\ UNCHANGED <<http_requests, signatures>>
           ELSE IF "token" \notin DOMAIN prepare_response
             THEN /\ mgmt' = [seen EXCEPT !.pc = "done", !.result = Raise("KeyError")]
                  /\ signatures' = Append(signatures, signature)
                  /\ UNCHANGED http_requests
           ELSE /\ mgmt' = [seen EXCEPT !.pc = "submit"]
                /\ signatures' = Append(signatures, signature)
                /\ http_requests' = Append(http_requests,
                     [method |-> "POST", path |-> "/api/v1/sdk/agents",
                      json |-> create_payload(prepare_response, signature, mgmt.name,
                                              mgmt.spend_config, mgmt.authorized_sellers)])
    /\ UNCHANGED outsideMgmt

\* the submit request returns the agent record
SubmitResponse(agent) ==
    /\ mgmt.pc = "submit"
    /\ mgmt' = [mgmt EXCEPT !.pc = "done", !.result = [tag |-> "return", agent |-> agent]]
    /\ UNCHANGED <<http_requests, signatures, outsideMgmt>>

\* _fetch raises ApiError: a non-success status, a timeout, a failed request
FetchRaises ==
    /\ mgmt.pc \in {"prepare", "submit"}
    /\ mgmt' = [mgmt EXCEPT !.pc = "done", !.result = ApiError("Request failed")]
    /\ UNCHANGED <<http_requests, signatures, outsideMgmt>>

NextMgmt ==
    \/ \E private_key \in PrivateKeys, spend_config \in SpendConfigs,
          authorized_sellers \in SellerLists :
            CreateAgent("test-agent", private_key, spend_config, authorized_sellers)
    \/ \E prepare_response \in PrepareResponses : PrepareResponse(prepare_response)
    \/ \E agent \in AgentRecords : SubmitResponse(agent)
    \/ FetchRaises

-----------------------------------------------------------------------------
(* BlockRunAI.chat_completion *)

BLOCKRUN_DEFAULT_API_URL == "https://blockrun.ai/api"

BLOCKRUN_DEFAULT_MAX_TOKENS == 1024

\* MODELS.get(model, model): the aliases the model uses, others resolve to themselves
resolve_model(model) == IF model = "gpt-4o" THEN "openai/gpt-4o" ELSE model

BlockRunAIError(message) == [kind |-> "raise", exc |-> "BlockRunAIError", message |-> message]

\* an exception that is not raised by BlockRunAI itself
OtherError(exc) == [kind |-> "raise", exc |-> exc, message |-> ""]

ChatReturned(value) == [kind |-> "return", value |-> value]

\* a local that is not bound yet
Unbound == [tag |-> "unbound"]

IdleBlockRun ==
    [pc |-> "idle", url |-> None, body |-> None, response |-> None, payment_required |-> None,
     authorization |-> Unbound, retry_response |-> None, outcome |-> None]

BlockRunDone(frame, outcome) == [frame EXCEPT !.pc = "done", !.outcome = outcome]

PostCall(url, json, headers) ==
    [target |-> "client.post", url |-> url, json |-> json, headers |-> headers]

TreasurerCall(payment_required, context) ==
    [target |-> "treasurer.onPaymentRequired", payment_required |-> payment_required,
     context |-> context]

\* an int argument
IntArgument(n) == [tag |-> "int", n |-> n]

\* the arguments of chat_completion the model varies: model name and max_tokens
ChatArguments ==
    {[model |-> m, max_tokens |-> t] :
        m \in {"gpt-4o", "custom/model"},
        t \in {None, IntArgument(0), IntArgument(100)}}

\* chat_completion and _request_with_payment up to the await of the first POST
ChatCompletion(args) ==
    /\ blockrun.pc = "idle"
    /\ LET url == <<BLOCKRUN_DEFAULT_API_URL, "/v1/chat/completions">>
           body == [model |-> resolve_model(args.model),
                    messages |-> <<[role |-> "user", content |-> "Hi!"]>>,
                    \* max_tokens or self.DEFAULT_MAX_TOKENS
                    max_tokens |-> IF args.max_tokens \notin {None, IntArgument(0)}
                                     THEN args.max_tokens
                                     ELSE IntArgument(BLOCKRUN_DEFAULT_MAX_TOKENS)]
       IN  /\ blockrun' = [blockrun EXCEPT !.pc = "first_post", !.url = url, !.body = body]
           /\ blockrun_calls' = Append(blockrun_calls,
                PostCall(url, body, ("Content-Type" :> Raw("application/json"))))
    /\ UNCHANGED outsideBlockRun

\* a chat completion as the gateway returns it
ChatJson ==
    Json([id |-> "test-123", model |-> "openai/gpt-4o",
          choices |-> <<[index |-> 0, finish_reason |-> "stop",
                         message |-> [role |-> "assistant", content |-> "Hello"]]>>])

\* requirement dicts of a 402: complete, and with only some of the keys
BlockRunWireOffers ==
    <<V1Wire("base", UsdcBase, "1000"), [scheme |-> "exact", network |-> "base-sepolia"],
      V1Wire("base-sepolia", UsdcSepolia, "3000")>>

\* payment data of a 402: the envelopes, an envelope without `accepts`, no JSON
BlockRunPaymentData ==
    {Raw("not json"), Json([error |-> "Payment required"])}
    \cup {Json(V1Envelope(Prefix(BlockRunWireOffers, n))) : n \in 0..MaxAccepts}

\* values of the payment-required header of a 402: absent, empty, or payment data
BlockRunHeaders ==
    {<<>>, ("payment-required" :> Raw(""))}
    \cup {("payment-required" :> d) : d \in {Raw("not json"),
                                             Json(V1Envelope(<<>>)),
                                             Json(V1Envelope(Prefix(BlockRunWireOffers, 1)))}}

\* what the gateway may answer to the first POST
BlockRunFirstResponses ==
    {[status_code |-> 402, headers |-> h, content |-> d] :
        h \in BlockRunHeaders, d \in BlockRunPaymentData}
    \cup {[status_code |-> st, headers |-> <<>>, content |-> d] :
             st \in {200, 500}, d \in {ChatJson, Raw("not json")}}

\* what the gateway may answer to the POST that carries the payment
BlockRunRetryResponses ==
    {[status_code |-> st, headers |-> <<>>, content |-> d] :
        st \in {200, 201, 402, 500}, d \in {ChatJson, Raw("not json")}}

\* PaymentRequirements(...) of _handle_payment: absent keys take defaults
blockrun_requirement(accept_data, url) ==
    [scheme |-> GetOr(accept_data, "scheme", "exact"),
     network |-> GetOr(accept_data, "network", "base"),
     max_amount_required |-> GetOr(accept_data, "maxAmountRequired", "0"),
     resource |-> GetOr(accept_data, "resource", url),
     description |-> GetOr(accept_data, "description", "BlockRun AI API"),
     mime_type |-> GetOr(accept_data, "mimeType", "application/json"),
     pay_to |-> GetOr(accept_data, "payTo", ""),
     max_timeout_seconds |-> GetOr(accept_data, "maxTimeoutSeconds", 300),
     asset |-> GetOr(accept_data, "asset", ""),
     extra |-> Get(accept_data, "extra")]

\* _handle_payment up to the call of the treasurer: the x402PaymentRequiredResponse
\* built from the header or the body, or the BlockRunAIError raised
blockrun_payment_required(url, response) ==
    LET header_value == Get(response.headers, "payment-required")
        source == IF Truthy(header_value) THEN header_value ELSE response.content
    IN  IF source.tag # "json"
          THEN IF Truthy(header_value)
                 THEN BlockRunAIError("Invalid payment-required header format")
                 ELSE BlockRunAIError("402 response but no payment requirements found")
        ELSE LET wire == GetOr(source.v, "accepts", <<>>)
                 accepts == [i \in 1..Len(wire) |-> blockrun_requirement(wire[i], url)]
             IN  IF accepts = <<>>
                   THEN BlockRunAIError("No payment requirements in 402 response")
                   ELSE [x402_version |-> GetOr(source.v, "x402Version", 1),
                         accepts |-> accepts,
                         error |-> GetOr(source.v, "error", "")]

\* ChatResponse.from_dict(response.json()), or the exception of response.json()
chat_response(response) ==
    IF response.content.tag = "json" THEN ChatReturned(response.content.v)
    ELSE OtherError("JSONDecodeError")

\* the first POST returns: _request_with_payment returns or raises, or
\* _handle_payment runs up to the await of the treasurer
FirstPostReturns(response) ==
    /\ blockrun.pc = "first_post"
    /\ LET got == [blockrun EXCEPT !.response = response]
           payment_required == blockrun_payment_required(blockrun.url, response)
       IN  IF response.status_code = 402
             THEN IF "kind" \in DOMAIN payment_required
                    THEN /\ blockrun' = BlockRunDone(got, payment_required)
                         /\ UNCHANGED blockrun_calls
                    ELSE /\ blockrun' = [got EXCEPT !.pc = "authorizing",
                                                    !.payment_required = payment_required]
                         /\ blockrun_calls' = Append(blockrun_calls,
                              TreasurerCall(payment_required,
                                            [url |-> blockrun.url, body |-> blockrun.body]))
           ELSE IF response.status_code # 200
             THEN /\ blockrun' = BlockRunDone(got, BlockRunAIError("API error"))
                  /\ UNCHANGED blockrun_calls
           ELSE /\ blockrun' = BlockRunDone(got, chat_response(response))
                /\ UNCHANGED blockrun_calls
    /\ UNCHANGED outsideBlockRun

\* mutant: after a decline the request is sent again, without payment
PaymentAuthorizedIgnoringDecline(authorization) ==
    /\ blockrun.pc = "authorizing"
    /\ blockrun' = [blockrun EXCEPT !.pc = "retry_post", !.authorization = authorization]
    /\ blockrun_calls' = Append(blockrun_calls,
         PostCall(blockrun.url, blockrun.body,
                  IF authorization = None THEN ("Content-Type" :> Raw("application/json"))
                  ELSE ("Content-Type" :> Raw("application/json")) @@
                       ("X-PAYMENT" :> authorization.payment)))
    /\ UNCHANGED outsideBlockRun

\* the treasurer returns: a decline raises, an authorization is sent with the
\* second POST
PaymentAuthorized(authorization) ==
    /\ blockrun.pc = "authorizing"
    /\ IF authorization = None
         THEN /\ blockrun' = BlockRunDone([blockrun EXCEPT !.authorization = None],
                               BlockRunAIError("Payment not authorized by treasurer"))
              /\ UNCHANGED blockrun_calls
         ELSE /\ blockrun' = [blockrun EXCEPT !.pc = "retry_post",
                                              !.authorization = authorization]
              /\ blockrun_calls' = Append(blockrun_calls,
                   PostCall(blockrun.url, blockrun.body,
                            ("Content-Type" :> Raw("application/json")) @@
                            ("X-PAYMENT" :> authorization.payment)))
    /\ UNCHANGED outsideBlockRun

\* the second POST returns: a ChatResponse for a 200, BlockRunAIError otherwise
RetryPostReturns(response) ==
    /\ blockrun.pc = "retry_post"
    /\ LET got == [blockrun EXCEPT !.retry_response = response]
       IN  blockrun' =
             IF response.status_code = 402
               THEN BlockRunDone(got, BlockRunAIError("Payment rejected"))
             ELSE IF response.status_code # 200
               THEN BlockRunDone(got, BlockRunAIError("API error after payment"))
             ELSE BlockRunDone(got, chat_response(response))
    /\ UNCHANGED <<blockrun_calls, outsideBlockRun>>

\* an awaited call raises (a POST of the http client, the treasurer): nothing in
\* BlockRunAI catches it
BlockRunAwaitRaises ==
    /\ blockrun.pc \in {"first_post", "authorizing", "retry_post"}
    /\ blockrun' = BlockRunDone(blockrun, OtherError("Exception"))
    /\ UNCHANGED <<blockrun_calls, outsideBlockRun>>

\* what the treasurer may answer: a decline, or an authorization
BlockRunTreasurerAnswers ==
    IF blockrun.pc = "authorizing"
      THEN {None} \cup Authorizations(blockrun.payment_required) ELSE {}

NextBlockRun ==
    \/ \E args \in ChatArguments : ChatCompletion(args)
    \/ \E response \in BlockRunFirstResponses : FirstPostReturns(response)
    \/ \E authorization \in BlockRunTreasurerAnswers : PaymentAuthorized(authorization)
    \/ \E response \in BlockRunRetryResponses : RetryPostReturns(response)
    \/ BlockRunAwaitRaises

-----------------------------------------------------------------------------
(* Properties of the transport *)

\* the request carries the extension by which the transport marks its own retry
CarriesRetryFlag(request) ==
    RETRY_KEY \in DOMAIN request.extensions /\ request.extensions[RETRY_KEY] = TRUE

\* the requests the wrapped transport received for call c, in order
RequestsOf(c) == SelectSeq(wrapped_requests, LAMBDA e : e.call = c)

\* the responses the wrapped transport handed back to call c, in order
ResponsesOf(c) == SelectSeq(wrapped_responses, LAMBDA e : e.call = c)

PaymentRequiredCallsOf(c) == SelectSeq(payment_required_calls, LAMBDA e : e.call = c)

StatusCallsOf(c) == SelectSeq(status_calls, LAMBDA e : e.call = c)

Started(c) == calls[c].pc # "idle"

Finished(c) == calls[c].pc = "done"

ReturnedResponse(c) == Finished(c) /\ calls[c].result.kind = "return"

\* same status, headers and body, whatever the state of the stream
SameMessage(r1, r2) ==
    /\ r1.status_code = r2.status_code
    /\ r1.headers = r2.headers
    /\ r1.content = r2.content

\* C1: a call on a request not flagged as a retry sends at most two requests to
\* the wrapped transport, the original and then at most one retry (flagged as such),
\* whatever the server and the treasurer do and wherever the call is interrupted;
\* the retry is the last request of the call.
C1_AtMostOneRetry ==
    \A c \in CallIds :
        (Started(c) /\ ~CarriesRetryFlag(calls[c].request)) =>
            /\ Len(RequestsOf(c)) \in {1, 2}
            /\ RequestsOf(c)[1].request = calls[c].request
            /\ Len(RequestsOf(c)) = 2 <=> calls[c].retry_request # None
            /\ Len(RequestsOf(c)) = 2 =>
                 /\ RequestsOf(c)[2].request = calls[c].retry_request
                 /\ CarriesRetryFlag(calls[c].retry_request)

\* a server that keeps answering 402 with a payable envelope: the call ended after its retry
C1_Witness ==
    /\ Finished(1)
    /\ ~CarriesRetryFlag(calls[1].request)
    /\ Len(RequestsOf(1)) = 2
    /\ calls[1].retry_response # None
    /\ calls[1].retry_response.status_code = 402
    /\ ~IsRaise(ParseV1PaymentRequired(calls[1].retry_response.content))

\* C2: well-formed 402, the treasurer authorizes, the retry is answered 200: two
\* requests, one status report, `completed`, carrying the authorization the
\* treasurer returned, and the 200 is what the caller gets (unless cancelled
\* while the report is pending).
C2_PaidThenOk ==
    \A c \in CallIds :
        (calls[c].retry_response # None /\ calls[c].retry_response.status_code = 200) =>
            /\ Len(RequestsOf(c)) = 2
            /\ Len(StatusCallsOf(c)) = 1
            /\ StatusCallsOf(c)[1].status = "payment-completed"
            /\ StatusCallsOf(c)[1].authorization = calls[c].authorization
            /\ calls[c].authorization \in Authorizations(calls[c].payment_required)
            /\ ReturnedResponse(c) => calls[c].result.response = calls[c].retry_response
            /\ (Finished(c) /\ ~ReturnedResponse(c)) => calls[c].result = Raised("CancelledError")

C2_Witness ==
    /\ ReturnedResponse(1)
    /\ calls[1].retry_response # None
    /\ calls[1].retry_response.status_code = 200
    /\ calls[1].result.response.status_code = 200
    /\ Len(StatusCallsOf(1)) = 1

\* C3: 402 to the original and to the retry: two requests and never a third, one
\* status report, `rejected`, and the second 402 is returned as it came.
C3_RejectedAfterRetry ==
    \A c \in CallIds :
        (calls[c].retry_response # None /\ calls[c].retry_response.status_code = 402) =>
            /\ Len(RequestsOf(c)) = 2
            /\ Len(StatusCallsOf(c)) = 1
            /\ StatusCallsOf(c)[1].status = "payment-rejected"
            /\ ReturnedResponse(c) =>
                 /\ calls[c].result.response = calls[c].retry_response
                 /\ calls[c].result.response = ResponsesOf(c)[2].response
            /\ (Finished(c) /\ ~ReturnedResponse(c)) => calls[c].result = Raised("CancelledError")

C3_Witness ==
    /\ ReturnedResponse(1)
    /\ calls[1].retry_response # None
    /\ calls[1].result.response.status_code = 402
    /\ ~calls[1].result.response.is_closed
    /\ Len(RequestsOf(1)) = 2

\* the treasurer was asked about the envelope of call c and returned None
Declined(c) ==
    /\ ReturnedResponse(c)
    /\ calls[c].payment_required # None
    /\ calls[c].authorization = None

\* C4: the treasurer declines a well-formed 402 (v1 or v2): one request, no status
\* report, and the caller gets a 402 with the headers and the body of the original.
C4_Declined ==
    \A c \in CallIds :
        Declined(c) =>
            /\ Len(RequestsOf(c)) = 1
            /\ StatusCallsOf(c) = <<>>
            /\ calls[c].result.response.status_code = 402
            /\ SameMessage(calls[c].result.response, ResponsesOf(c)[1].response)

C4_Witness ==
    /\ Declined(1)
    /\ calls[1].protocol = "v2"
    /\ calls[1].result.response.headers # <<>>
    /\ Len(calls[1].payment_required.accepts) = 2

\* C5: a 402 on a request flagged as a retry is returned as it came: the treasurer
\* is not asked, nothing is sent again, nothing is reported.
C5_RetryFlagIsFinal ==
    \A c \in CallIds :
        (Started(c) /\ CarriesRetryFlag(calls[c].request) /\ ResponsesOf(c) # <<>>
            /\ ResponsesOf(c)[1].response.status_code = 402) =>
            /\ Finished(c)
            /\ calls[c].result = Returned(ResponsesOf(c)[1].response)
            /\ PaymentRequiredCallsOf(c) = <<>>
            /\ StatusCallsOf(c) = <<>>
            /\ Len(RequestsOf(c)) = 1

C5_Witness ==
    /\ Finished(1)
    /\ CarriesRetryFlag(calls[1].request)
    /\ calls[1].result.kind = "return"
    /\ calls[1].result.response.status_code = 402
    /\ ~IsRaise(ParseV1PaymentRequired(calls[1].result.response.content))

\* the 402 carries no payment envelope: a v1 body that is no JSON or lacks the
\* envelope fields, a v2 header that is no base64 of a JSON document
Malformed(response) ==
    LET v2_header == get_v2_header(response)
    IN  IF v2_header # None
          THEN v2_header.tag # "b64" \/ v2_header.d.tag # "json"
          ELSE \/ response.content.tag # "json"
               \/ ~({"x402Version", "accepts", "error"} \subseteq DOMAIN response.content.v)

\* C6: a 402 without a well-formed envelope passes through: the caller gets a 402
\* with the original headers and body, the treasurer is never called, one request.
C6_MalformedPassesThrough ==
    \A c \in CallIds :
        (calls[c].response # None /\ calls[c].response.is_closed
            /\ Malformed(calls[c].response)) =>
            /\ ReturnedResponse(c)
            /\ calls[c].result.response.status_code = 402
            /\ SameMessage(calls[c].result.response, ResponsesOf(c)[1].response)
            /\ PaymentRequiredCallsOf(c) = <<>>
            /\ StatusCallsOf(c) = <<>>
            /\ Len(RequestsOf(c)) = 1

C6_Witness ==
    /\ ReturnedResponse(1)
    /\ calls[1].response # None
    /\ get_v2_header(calls[1].response) = None
    /\ calls[1].response.content = Json([error |-> "billing issue"])
    /\ calls[1].result.response.content = Json([error |-> "billing issue"])

\* C7: a first response that is not a 402 is returned as it came, after one
\* request, and the treasurer is never called.
C7_Non402PassesThrough ==
    \A c \in CallIds :
        (ResponsesOf(c) # <<>> /\ ResponsesOf(c)[1].response.status_code # 402) =>
            /\ Finished(c)
            /\ calls[c].result = Returned(ResponsesOf(c)[1].response)
            /\ Len(RequestsOf(c)) = 1
            /\ PaymentRequiredCallsOf(c) = <<>>
            /\ StatusCallsOf(c) = <<>>

C7_Witness ==
    /\ Finished(1)
    /\ ~CarriesRetryFlag(calls[1].request)
    /\ calls[1].result.kind = "return"
    /\ calls[1].result.response.status_code = 500
    /\ ~calls[1].result.response.is_stream_consumed

\* the retried response of call c, once the wrapped transport has answered
Retried(c) == calls[c].retry_response # None

\* the response carries one of the two payment-response headers
AcceptanceSignalled(response) ==
    "payment-response" \in DOMAIN response.headers
        \/ "x-payment-response" \in DOMAIN response.headers

\* the one status reported for call c
ReportedStatus(c) == StatusCallsOf(c)[1].status

\* the caller gets the retried response, unless cancelled while the report is pending
RetriedResponseReturned(c) ==
    /\ ReturnedResponse(c) => calls[c].result.response = calls[c].retry_response
    /\ (Finished(c) /\ ~ReturnedResponse(c)) => calls[c].result = Raised("CancelledError")

\* C14 as claimed: a retried response with any 2xx status is reported `completed`.
C14_Any2xxCompleted ==
    \A c \in CallIds :
        (Retried(c) /\ calls[c].retry_response.status_code \in 200..299) =>
            /\ Len(StatusCallsOf(c)) = 1
            /\ ReportedStatus(c) = "payment-completed"

\* C14 (amended): a retried response with status 200 is reported `completed`; a
\* 2xx status other than 200 is reported `completed` only with a payment-response
\* header, and `failed` without.
C14_Status200Completed ==
    \A c \in CallIds :
        (Retried(c) /\ calls[c].retry_response.status_code \in 200..299) =>
            /\ Len(StatusCallsOf(c)) = 1
            /\ calls[c].retry_response.status_code = 200 =>
                  ReportedStatus(c) = "payment-completed"
            /\ calls[c].retry_response.status_code # 200 =>
                  ReportedStatus(c) =
                     (IF AcceptanceSignalled(calls[c].retry_response)
                        THEN "payment-completed" ELSE "payment-failed")

\* a 201 without payment-response header is reported `failed`
C14_Witness ==
    /\ ReturnedResponse(1)
    /\ Retried(1)
    /\ calls[1].retry_response.status_code = 201
    /\ ~AcceptanceSignalled(calls[1].retry_response)
    /\ ReportedStatus(1) = "payment-failed"

\* C15 as claimed: a retried response with any non-200 status and a
\* payment-response header is reported `completed` and returned with its status.
C15_AnyNon200WithHeader ==
    \A c \in CallIds :
        (Retried(c) /\ calls[c].retry_response.status_code # 200
            /\ AcceptanceSignalled(calls[c].retry_response)) =>
            /\ Len(StatusCallsOf(c)) = 1
            /\ ReportedStatus(c) = "payment-completed"
            /\ RetriedResponseReturned(c)

\* C15 (amended): a retried response with a status other than 200 and 402 that
\* carries `payment-response` or `x-payment-response` is reported `completed`
\* and returned with its own status; a 402 is reported `rejected` even with
\* such a header.
C15_AcceptedDespiteStatus ==
    \A c \in CallIds :
        (Retried(c) /\ calls[c].retry_response.status_code # 200
            /\ AcceptanceSignalled(calls[c].retry_response)) =>
            /\ Len(StatusCallsOf(c)) = 1
            /\ ReportedStatus(c) =
                 (IF calls[c].retry_response.status_code = 402
                    THEN "payment-rejected" ELSE "payment-completed")
            /\ RetriedResponseReturned(c)

\* a 500 with an (empty) payment-response header: completed, and the caller gets the 500
C15_Witness ==
    /\ ReturnedResponse(1)
    /\ Retried(1)
    /\ calls[1].result.response.status_code = 500
    /\ Get(calls[1].retry_response.headers, "payment-response") = Raw("")
    /\ ReportedStatus(1) = "payment-completed"

\* C16: a retried response that is not 200, not 402 and carries no
\* payment-response header is reported `failed`, and is still what the caller gets.
C16_FailedWithoutSignal ==
    \A c \in CallIds :
        (Retried(c) /\ calls[c].retry_response.status_code \notin {200, 402}
            /\ ~AcceptanceSignalled(calls[c].retry_response)) =>
            /\ Len(StatusCallsOf(c)) = 1
            /\ ReportedStatus(c) = "payment-failed"
            /\ RetriedResponseReturned(c)

C16_Witness ==
    /\ ReturnedResponse(1)
    /\ Retried(1)
    /\ calls[1].result.response.status_code = 500
    /\ calls[1].retry_response.headers = <<>>
    /\ ReportedStatus(1) = "payment-failed"

\* C17: when onStatus raises, the exception is swallowed: the call returns the
\* retried response, whatever its status.
C17_StatusErrorSwallowed ==
    \A c \in CallIds :
        calls[c].logged_error =>
            /\ ReturnedResponse(c)
            /\ calls[c].result.response = calls[c].retry_response
            /\ Len(StatusCallsOf(c)) = 1

C17_Witness ==
    /\ calls[1].logged_error
    /\ ReturnedResponse(1)
    /\ calls[1].result.response.status_code = 500
    /\ ReportedStatus(1) = "payment-failed"

\* the 402 carries a v2 payment-required header, under either name
V2HeaderPresent(response) ==
    "x-payment-required" \in DOMAIN response.headers
        \/ "payment-required" \in DOMAIN response.headers

\* the payment headers of the retry of call c that the original request did not
\* carry, or carried with another value
PaymentHeadersAdded(c) ==
    {h \in {"x-payment", "payment-signature"} :
        Get(calls[c].retry_request.headers, h) # Get(calls[c].request.headers, h)}

\* C18: the presence of a v2 header on the 402 decides the protocol: present,
\* the retry carries a v2 proof under `payment-signature` and no `x-payment` is
\* added; absent, the envelope is the v1 body and the retry carries a v1 proof
\* under `x-payment`; a retry never gets both headers.
C18_VersionByHeaderPresence ==
    \A c \in CallIds :
        calls[c].retry_request # None =>
            IF V2HeaderPresent(ResponsesOf(c)[1].response)
              THEN /\ PaymentHeadersAdded(c) = {"payment-signature"}
                   /\ calls[c].retry_request.headers["payment-signature"].d.v.x402Version = 2
              ELSE /\ PaymentHeadersAdded(c) = {"x-payment"}
                   /\ calls[c].retry_request.headers["x-payment"].d.v.x402Version = 1
                   /\ calls[c].payment_required.accepts =
                        [i \in DOMAIN ResponsesOf(c)[1].response.content.v.accepts |->
                            ParseV1Requirement(ResponsesOf(c)[1].response.content.v.accepts[i])]

\* retry differs from original in the header `name` and the retry flag only
SameButPaymentHeader(original, retry, name) ==
    /\ DOMAIN retry = DOMAIN original
    /\ retry.method = original.method
    /\ retry.url = original.url
    /\ retry.content = original.content
    /\ DOMAIN retry.headers = DOMAIN original.headers \cup {name}
    /\ \A h \in DOMAIN original.headers \ {name} : retry.headers[h] = original.headers[h]
    /\ retry.headers[name].tag = "b64"
    /\ DOMAIN retry.extensions = DOMAIN original.extensions \cup {RETRY_KEY}
    /\ \A e \in DOMAIN original.extensions \ {RETRY_KEY} :
          retry.extensions[e] = original.extensions[e]
    /\ retry.extensions[RETRY_KEY] = TRUE

\* C19: the retry has the method, URL, body and headers of the original request,
\* the payment header (new, or in place of a value the original had under that
\* name) and the retry flag; nothing else differs, and it is what is sent.
C19_RetryFrame ==
    \A c \in CallIds :
        calls[c].retry_request # None =>
            /\ \E name \in {"x-payment", "payment-signature"} :
                  SameButPaymentHeader(calls[c].request, calls[c].retry_request, name)
            /\ RequestsOf(c)[2].request = calls[c].retry_request

\* a POST with a body, a stale x-payment header and an extension of its own
C19_Witness ==
    /\ calls[1].retry_request # None
    /\ calls[1].request.method = "POST"
    /\ calls[1].request.content = Raw("{prompt}")
    /\ "x-payment" \in DOMAIN calls[1].request.headers
    /\ "timeout" \in DOMAIN calls[1].request.extensions
    /\ calls[1].retry_request.content = Raw("{prompt}")
    /\ calls[1].protocol = "v1"

\* the chain id of a v2 network: the reference of "namespace:reference", or the bare id
ChainIdOf(network) == network[Len(network)]

\* the v2 envelope the server sent to call c, decoded from its header
SentV2Envelope(c) ==
    LET headers == ResponsesOf(c)[1].response.headers
    IN  IF "x-payment-required" \in DOMAIN headers /\ headers["x-payment-required"] # Raw("")
          THEN headers["x-payment-required"].d.v
          ELSE headers["payment-required"].d.v

\* the `accepted` object of the v2 proof the retry of call c carries
SentAccepted(c) == calls[c].retry_request.headers["payment-signature"].d.v.accepted

\* C20: a v2 envelope decoded to v1 requirements, the i-th of them selected and
\* encoded back into the proof: `accepted` has the scheme, chain id, asset,
\* payTo and amount of the i-th requirement the server sent; base-sepolia is
\* the internal name of chain 84532 and of no other chain, and is encoded as
\* eip155:84532.
C20_V2RoundTrip ==
    \A c \in CallIds :
        (calls[c].protocol = "v2" /\ calls[c].retry_request # None) =>
            \A i \in DOMAIN calls[c].payment_required.accepts :
                LET sent == SentV2Envelope(c).accepts[i]
                    decoded == calls[c].payment_required.accepts[i]
                    accepted == SentAccepted(c)
                IN  /\ Len(SentV2Envelope(c).accepts) = Len(calls[c].payment_required.accepts)
                    /\ decoded.network = "base-sepolia" <=> ChainIdOf(sent.network) = "84532"
                    /\ calls[c].authorization.selected_requirement = decoded =>
                         /\ accepted.scheme = sent.scheme
                         /\ ChainIdOf(accepted.network) = ChainIdOf(sent.network)
                         /\ accepted.asset = sent.asset
                         /\ accepted.payTo = sent.payTo
                         /\ accepted.amount = sent.amount
                         /\ decoded.network = "base-sepolia" =>
                               accepted.network = <<"eip155", "84532">>

\* two requirements offered on two chains, the second selected
C20_Witness ==
    /\ calls[1].protocol = "v2"
    /\ calls[1].retry_request # None
    /\ Len(calls[1].payment_required.accepts) = 2
    /\ calls[1].authorization.selected_requirement = calls[1].payment_required.accepts[2]
    /\ SentAccepted(1).network = <<"eip155", "8453">>
    /\ SentAccepted(1).amount = "2000000"

-----------------------------------------------------------------------------
(* Properties of create_agent *)

\* the operation of a prepare response (a response without one has the empty operation)
OperationOf(response) == GetOr(response, "unsigned_user_op", <<>>)

\* a == b ignoring letter case
SameIgnoringCase(a, b) == lower(a) = lower(b)

\* 1. the operation specifies deployment code
IsDeployment(response) ==
    /\ OperationOf(response) # None
    /\ "factory" \in DOMAIN OperationOf(response)
    /\ OperationOf(response).factory # None

\* 2. the declared sender is the address the server says is being deployed
SenderMatches(response) ==
    /\ "sender" \in DOMAIN OperationOf(response)
    /\ OperationOf(response).sender \notin {None, EmptyStr}
    /\ SameIgnoringCase(OperationOf(response).sender,
                        GetOr(response, "agent_address", EmptyStr))

\* 3. the signing key's address is among the declared owners
KeyIsOwner(response, private_key) ==
    /\ "owners" \in DOMAIN response
    /\ \E i \in DOMAIN response.owners :
          SameIgnoringCase(response.owners[i], AddressOf(private_key))

\* 4. the server's hash is the canonical hash of the operation it sent
HashMatches(response) ==
    /\ "user_op_hash" \in DOMAIN response
    /\ ~IsRaise(compute_user_op_hash(OperationOf(response), DEFAULT_CHAIN_ID))
    /\ SameIgnoringCase(response.user_op_hash,
                        compute_user_op_hash(OperationOf(response), DEFAULT_CHAIN_ID))

\* the canonical hash of the operation can be computed (no conversion raises)
Hashable(response) ==
    ~IsRaise(compute_user_op_hash(OperationOf(response), DEFAULT_CHAIN_ID))

AllChecksPass(response, private_key) ==
    /\ IsDeployment(response)
    /\ SenderMatches(response)
    /\ KeyIsOwner(response, private_key)
    /\ HashMatches(response)

PrepareRequest(private_key) ==
    [method |-> "POST", path |-> "/api/v1/sdk/agents/prepare",
     json |-> [agent_key_address |-> AddressOf(private_key)]]

\* C8: create_agent signs and submits only after the four checks have passed on
\* the prepare response; if a check fails it raises, signs nothing, and the
\* prepare request is the only request sent.
C8_SignOnlyAfterVerification ==
    /\ (signatures # <<>> \/ Len(http_requests) > 1) =>
          /\ mgmt.prepare_response # None
          /\ AllChecksPass(mgmt.prepare_response, mgmt.private_key)
    /\ (mgmt.prepare_response # None
          /\ ~AllChecksPass(mgmt.prepare_response, mgmt.private_key)) =>
          /\ mgmt.pc = "done"
          /\ IsRaise(mgmt.result)
          /\ signatures = <<>>
          /\ http_requests = <<PrepareRequest(mgmt.private_key)>>

\* checks 1-3 pass and the hash is another operation's: nothing signed
C8_Witness ==
    /\ mgmt.pc = "done"
    /\ mgmt.prepare_response # None
    /\ IsDeployment(mgmt.prepare_response)
    /\ SenderMatches(mgmt.prepare_response)
    /\ KeyIsOwner(mgmt.prepare_response, mgmt.private_key)
    /\ "user_op_hash" \in DOMAIN mgmt.prepare_response
    /\ ~HashMatches(mgmt.prepare_response)
    /\ mgmt.result = ApiError("hash mismatch")
    /\ signatures = <<>>

SubmitKeys == {"token", "signature", "name", "spend_config", "authorized_sellers"}

\* C9: a successful create_agent has sent two requests, prepare then submit; the
\* submit payload has the token of the prepare response, the signature, the name,
\* the spend config and the sellers, and nothing else (no operation, no prepare
\* response).
C9_SubmitCarriesTokenAndSignature ==
    (mgmt.pc = "done" /\ mgmt.result.tag = "return") =>
        /\ Len(http_requests) = 2
        /\ http_requests[1] = PrepareRequest(mgmt.private_key)
        /\ http_requests[2].method = "POST"
        /\ http_requests[2].path = "/api/v1/sdk/agents"
        /\ DOMAIN http_requests[2].json = SubmitKeys
        /\ http_requests[2].json.token = mgmt.prepare_response.token
        /\ Len(signatures) = 1
        /\ http_requests[2].json.signature = signatures[1]
        /\ signatures[1].signer = mgmt.private_key
        /\ http_requests[2].json.name = mgmt.name
        /\ http_requests[2].json.authorized_sellers = mgmt.authorized_sellers
        /\ http_requests[2].json.spend_config =
             (IF mgmt.spend_config = None THEN None
              ELSE [auto_topup_allowed |-> mgmt.spend_config.auto_topup_allowed,
                    daily_limit |-> [tag |-> "str", of |-> 1000000],
                    monthly_limit |-> None,
                    per_transaction_limit |-> [tag |-> "str", of |-> 50000]])

C9_Witness ==
    /\ mgmt.pc = "done"
    /\ mgmt.result.tag = "return"
    /\ mgmt.spend_config # None
    /\ Len(http_requests) = 2
    /\ mgmt.prepare_response.user_op_hash.case = "mixed"

\* the operation of the response is an object (or missing) without deployment code
NoDeploymentCode(response) ==
    /\ OperationOf(response) # None
    /\ \/ "factory" \notin DOMAIN OperationOf(response)
       \/ OperationOf(response).factory = None

\* C10: a prepare response whose operation has a null or absent factory is
\* rejected as not a deployment, whatever its other fields hold, and nothing is
\* signed or submitted.
C10_NotADeployment ==
    (mgmt.prepare_response # None /\ NoDeploymentCode(mgmt.prepare_response)) =>
        /\ mgmt.pc = "done"
        /\ mgmt.result = ApiError("not a deployment operation (factory is null)")
        /\ signatures = <<>>
        /\ Len(http_requests) = 1

\* only the factory is missing: sender, owners and hash are all as they should be
C10_Witness ==
    /\ mgmt.pc = "done"
    /\ mgmt.prepare_response # None
    /\ NoDeploymentCode(mgmt.prepare_response)
    /\ SenderMatches(mgmt.prepare_response)
    /\ KeyIsOwner(mgmt.prepare_response, mgmt.private_key)
    /\ HashMatches(mgmt.prepare_response)
    /\ "token" \in DOMAIN mgmt.prepare_response
    /\ mgmt.result = ApiError("not a deployment operation (factory is null)")

\* the prepare response create_agent has received and verified
Verified == mgmt.prepare_response # None /\ OperationOf(mgmt.prepare_response) # None

\* C11: once the operation is a deployment, the verifier raises the sender
\* mismatch exactly when the declared sender is missing (absent, null or empty)
\* or differs from the server-declared agent address by more than letter case;
\* a rejected response is never signed.
C11_SenderMismatch ==
    (Verified /\ IsDeployment(mgmt.prepare_response)) =>
        /\ (mgmt.result = ApiError("sender mismatch"))
              <=> ~SenderMatches(mgmt.prepare_response)
        /\ ~SenderMatches(mgmt.prepare_response) =>
              (mgmt.pc = "done" /\ signatures = <<>> /\ Len(http_requests) = 1)

\* the sender is another address, everything else is as it should be
C11_Witness ==
    /\ Verified
    /\ IsDeployment(mgmt.prepare_response)
    /\ Get(OperationOf(mgmt.prepare_response), "sender") = OtherAddr
    /\ Get(mgmt.prepare_response, "agent_address") = AgentAddr("lower")
    /\ KeyIsOwner(mgmt.prepare_response, mgmt.private_key)
    /\ HashMatches(mgmt.prepare_response)
    /\ mgmt.result = ApiError("sender mismatch")

\* C12: once checks 1 and 2 have passed, the verifier raises the owners error
\* exactly when no declared owner equals the signing key's address ignoring
\* letter case, an empty or absent owners list included; a rejected response is
\* never signed.
C12_KeyNotAuthorized ==
    (Verified /\ IsDeployment(mgmt.prepare_response)
        /\ SenderMatches(mgmt.prepare_response)) =>
        /\ (mgmt.result = ApiError("agent key not in owners list"))
              <=> ~KeyIsOwner(mgmt.prepare_response, mgmt.private_key)
        /\ ~KeyIsOwner(mgmt.prepare_response, mgmt.private_key) =>
              (mgmt.pc = "done" /\ signatures = <<>> /\ Len(http_requests) = 1)

\* the owners are declared and another key's address is among them, not ours
C12_Witness ==
    /\ Verified
    /\ IsDeployment(mgmt.prepare_response)
    /\ SenderMatches(mgmt.prepare_response)
    /\ mgmt.private_key = "key-ab"
    /\ "owners" \in DOMAIN mgmt.prepare_response
    /\ mgmt.prepare_response.owners = <<AddressOf("key-cd")>>
    /\ HashMatches(mgmt.prepare_response)
    /\ mgmt.result = ApiError("agent key not in owners list")

\* C13: once checks 1-3 have passed, the verifier raises the hash mismatch
\* exactly when the hash recomputed from the operation differs from the server's
\* user_op_hash by more than letter case, and then nothing is signed or
\* submitted; what is signed always carries a hash equal to the recomputed one
\* ignoring case.
C13_HashMismatch ==
    /\ (Verified /\ IsDeployment(mgmt.prepare_response)
          /\ SenderMatches(mgmt.prepare_response)
          /\ KeyIsOwner(mgmt.prepare_response, mgmt.private_key)
          /\ Hashable(mgmt.prepare_response)) =>
          /\ (mgmt.result = ApiError("hash mismatch"))
                <=> ~HashMatches(mgmt.prepare_response)
          /\ ~HashMatches(mgmt.prepare_response) =>
                (mgmt.pc = "done" /\ signatures = <<>> /\ Len(http_requests) = 1)
    /\ signatures # <<>> => HashMatches(mgmt.prepare_response)

\* the server's hash is the hash of the operation with another nonce
C13_Witness ==
    /\ Verified
    /\ IsDeployment(mgmt.prepare_response)
    /\ SenderMatches(mgmt.prepare_response)
    /\ KeyIsOwner(mgmt.prepare_response, mgmt.private_key)
    /\ "user_op_hash" \in DOMAIN mgmt.prepare_response
    /\ mgmt.prepare_response.user_op_hash =
         compute_user_op_hash(("nonce" :> IntValue("hex", 7)) @@ OperationOf(mgmt.prepare_response),
                              DEFAULT_CHAIN_ID)
    /\ mgmt.result = ApiError("hash mismatch")
    /\ signatures = <<>>

\* the checks a verified response violates, in the verifier's order
ViolatedChecks(response, private_key) ==
    SelectSeq(<<1, 2, 3, 4>>,
              LAMBDA k : CASE k = 1 -> ~IsDeployment(response)
                           [] k = 2 -> ~SenderMatches(response)
                           [] k = 3 -> ~KeyIsOwner(response, private_key)
                           [] k = 4 -> Hashable(response) /\ ~HashMatches(response))

CheckError(k) ==
    CASE k = 1 -> ApiError("not a deployment operation (factory is null)")
      [] k = 2 -> ApiError("sender mismatch")
      [] k = 3 -> ApiError("agent key not in owners list")
      [] k = 4 -> ApiError("hash mismatch")

\* C31: the verifier's checks run in the order deployment, sender, owners, hash
\* and the first failure wins: the error raised is that of the earliest check
\* the response violates, and when one of checks 1-3 is violated the hash is
\* not computed, so that an operation whose hash computation would raise is
\* still rejected with the error of that check.
C31_FirstFailureWins ==
    Verified =>
        LET violated == ViolatedChecks(mgmt.prepare_response, mgmt.private_key)
        IN  /\ violated # <<>> => mgmt.result = CheckError(violated[1])
            /\ (violated # <<>> /\ violated[1] < 4
                  /\ ~Hashable(mgmt.prepare_response)) =>
                  (mgmt.result.exc = "ApiError" /\ mgmt.verified.exc = "ApiError")

\* sender and owners are both wrong and the operation cannot be hashed: the
\* sender mismatch is what is raised
C31_Witness ==
    /\ Verified
    /\ ViolatedChecks(mgmt.prepare_response, mgmt.private_key) = <<2, 3>>
    /\ ~Hashable(mgmt.prepare_response)
    /\ OperationOf(mgmt.prepare_response).callData = MalformedCallData
    /\ mgmt.result = ApiError("sender mismatch")
    /\ signatures = <<>>

\* the deployment code in the encoding the verifier hashes for the response
HashedInitCode(response) ==
    compute_user_op_hash(OperationOf(response), DEFAULT_CHAIN_ID)
        .body.of.inner_hash.of.init_code_hash.of

\* C39: an operation that passes the deployment check is hashed as a
\* deployment: once checks 1-3 have passed and the hash is computed, the
\* deployment code under the hash is the factory's address followed by the
\* factory data, and is not the empty byte string.
C39_HashedAsDeployment ==
    (Verified /\ IsDeployment(mgmt.prepare_response)
        /\ SenderMatches(mgmt.prepare_response)
        /\ KeyIsOwner(mgmt.prepare_response, mgmt.private_key)
        /\ Hashable(mgmt.prepare_response)) =>
        /\ HashedInitCode(mgmt.prepare_response) # Bytes(<<>>)
        /\ HashedInitCode(mgmt.prepare_response) =
             Bytes(<<OperationOf(mgmt.prepare_response).factory.body>>
                   \o OperationOf(mgmt.prepare_response).factoryData.body.bytes)

\* the envelope of call c parsed and offers nothing
NoRequirementsOffered(c) ==
    /\ calls[c].payment_required # None
    /\ calls[c].payment_required.accepts = <<>>

\* C23: an envelope that parses with an empty accepts list is a decline: no
\* retry, no status report, no error; the caller gets the original 402.
C23_EmptyAcceptsDeclined ==
    \A c \in CallIds :
        NoRequirementsOffered(c) =>
            /\ calls[c].retry_request = None
            /\ StatusCallsOf(c) = <<>>
            /\ Len(RequestsOf(c)) = 1
            /\ Finished(c) =>
                 /\ calls[c].result.kind = "return"
                 /\ calls[c].result.response.status_code = 402
                 /\ SameMessage(calls[c].result.response, ResponsesOf(c)[1].response)

-----------------------------------------------------------------------------
(* Properties of the v2 adapter *)

\* the requirements of the payload handed to the decoder
PayloadAccepts == GetOr(adapter.decoded, "accepts", <<>>)

\* the requirement names a chain the lookup table does not have
NamesUnknownChain(req) ==
    /\ "network" \in DOMAIN req
    /\ ChainIdOf(req.network) \notin {"84532", "8453"}

\* the requirement has every field the decoder reads, and its asset is a token of its chain
ValidRequirement(req) ==
    /\ {"scheme", "network", "amount", "asset", "payTo"} \subseteq DOMAIN req
    /\ \/ ChainIdOf(req.network) = "84532" /\ req.asset = UsdcSepolia
       \/ ChainIdOf(req.network) = "8453" /\ req.asset = UsdcBase

\* C21: a payload with a requirement on an unknown chain does not decode: the
\* call raises and yields neither envelope nor context, also when the other
\* requirements are valid; the exception is the ValueError "Unknown chain ID"
\* when the requirements listed before it are valid.
C21_UnknownChainId ==
    (adapter.decoded # None /\ \E i \in DOMAIN PayloadAccepts : NamesUnknownChain(PayloadAccepts[i])) =>
        /\ adapter.pc = "raised"
        /\ adapter.v1_response = None
        /\ adapter.v2_ctx = None
        /\ adapter.encoded = None
        /\ LET first == CHOOSE i \in DOMAIN PayloadAccepts :
                           /\ NamesUnknownChain(PayloadAccepts[i])
                           /\ \A j \in 1..(i - 1) : ~NamesUnknownChain(PayloadAccepts[j])
           IN  (\A j \in 1..(first - 1) : ValidRequirement(PayloadAccepts[j])) =>
                   adapter.raised = Raise("ValueError: Unknown chain ID")

\* a valid requirement first, then one on chain 99999
C21_Witness ==
    /\ adapter.pc = "raised"
    /\ Len(PayloadAccepts) = 2
    /\ ValidRequirement(PayloadAccepts[1])
    /\ NamesUnknownChain(PayloadAccepts[2])
    /\ adapter.raised = Raise("ValueError: Unknown chain ID")
    /\ adapter.v1_response = None

\* the v2 header of the response decodes to a JSON payload listing a
\* requirement on a chain the lookup table does not have
UnmappableV2(response) ==
    LET x == Get(response.headers, "x-payment-required")
        value == IF x \notin {None, Raw("")} THEN x
                 ELSE Get(response.headers, "payment-required")
    IN  /\ value # None
        /\ value.tag = "b64"
        /\ value.d.tag = "json"
        /\ \E i \in DOMAIN GetOr(value.d.v, "accepts", <<>>) :
              NamesUnknownChain(value.d.v.accepts[i])

\* the 402 of call c has been read and closed, and the envelope looked at
Interpreted(c) == calls[c].response # None /\ calls[c].response.is_closed

\* C22 as claimed: an unmappable chain id in the v2 header is surfaced to the
\* caller of the transport as an error, never as a passed-through 402.
C22_UnknownChainSurfaced ==
    \A c \in CallIds :
        (Interpreted(c) /\ UnmappableV2(calls[c].response)) =>
            /\ Finished(c)
            /\ calls[c].result.kind = "raise"

\* C22 (amended): an unmappable chain id in the v2 header is not surfaced as an
\* error: the transport catches the adapter's ValueError and returns a 402 with
\* the headers and body of the original, without asking the treasurer and
\* without a retry.
C22_UnknownChainPassesThrough ==
    \A c \in CallIds :
        (Interpreted(c) /\ UnmappableV2(calls[c].response)) =>
            /\ ReturnedResponse(c)
            /\ calls[c].result.response.status_code = 402
            /\ SameMessage(calls[c].result.response, ResponsesOf(c)[1].response)
            /\ PaymentRequiredCallsOf(c) = <<>>
            /\ StatusCallsOf(c) = <<>>
            /\ Len(RequestsOf(c)) = 1

\* a payable requirement and one on chain 999999 in the same header
C22_Witness ==
    /\ ReturnedResponse(1)
    /\ calls[1].response # None
    /\ UnmappableV2(calls[1].response)
    /\ Len(calls[1].response.headers["x-payment-required"].d.v.accepts) = 2
    /\ calls[1].result.response.status_code = 402

\* the chain id the x402 library registers for a v1 network name
ChainIdNamed(network) == IF network = "base" THEN "8453" ELSE "84532"

\* C29: the envelope built by v1_to_v2_payment_payload has x402Version 2, the
\* resource of the V2 context as the decode captured it from the payload, the
\* proof's inner payload as it is, and an `accepted` written anew from the
\* selected requirement with network eip155:<chain id>
C29_V2EnvelopeFrame ==
    adapter.pc = "encoded" =>
        /\ adapter.encoded.x402Version = 2
        /\ adapter.encoded.resource = adapter.v2_ctx.resource
        /\ adapter.encoded.resource = GetOr(adapter.decoded, "resource", <<>>)
        /\ adapter.encoded.payload = adapter.payment.payload
        /\ adapter.encoded.accepted =
             [scheme |-> adapter.selected_requirement.scheme,
              network |-> <<"eip155", ChainIdNamed(adapter.selected_requirement.network)>>,
              amount |-> adapter.selected_requirement.max_amount_required,
              asset |-> adapter.selected_requirement.asset,
              payTo |-> adapter.selected_requirement.pay_to,
              maxTimeoutSeconds |-> adapter.selected_requirement.max_timeout_seconds]
        /\ DOMAIN adapter.encoded = {"x402Version", "resource", "accepted", "payload"}

C29_Witness ==
    /\ adapter.pc = "encoded"
    /\ Get(adapter.decoded, "resource") = [url |-> "https://api.example.com/chat",
                                           mimeType |-> "application/json"]
    /\ adapter.selected_requirement \in Range(adapter.v1_response.accepts)
    /\ adapter.selected_requirement.network = "base"
    /\ adapter.encoded.payload.signature = "0xdeadbeef"

-----------------------------------------------------------------------------
(* Properties of the canonical operation hash *)

HashedTwice == hasher.pc = "twice"

\* the fields in which two operations differ
DifferingFields(a, b) == {k \in DOMAIN a \cup DOMAIN b : Get(a, k) # Get(b, k)}

\* both calls were made on a client for the same chain, with operations that
\* differ in exactly one field
DifferInOneField ==
    /\ HashedTwice
    /\ hasher.first.chain_id = hasher.second.chain_id
    /\ Cardinality(DifferingFields(hasher.first.user_op, hasher.second.user_op)) = 1

\* C28 as claimed: equal inputs give equal hashes, and operations that differ in
\* any single field give different hashes
C28_AnyFieldChangesHash ==
    /\ (HashedTwice /\ hasher.first.user_op = hasher.second.user_op
                    /\ hasher.first.chain_id = hasher.second.chain_id)
            => hasher.first.result = hasher.second.result
    /\ DifferInOneField => hasher.first.result # hasher.second.result

\* the number whose hexadecimal numeral is the decimal numeral of d
RECURSIVE Base16(_)
Base16(d) == IF d < 10 THEN d ELSE 16 * Base16(d \div 10) + (d % 10)

\* the number a field spells, whatever its notation; an absent field is zero
NumberWritten(v) ==
    IF v = None THEN 0
    ELSE IF v.kind = "hex" THEN Base16(v.n)
    ELSE v.n

\* what field k of an operation says, whatever the notation: the number of an
\* integer, the bytes of a byte string (none when absent, null, "" or "0x"), the
\* address of the sender (the zero address when missing), the factory or fee
\* payer (None when absent, null or "")
ValueWritten(op, k) ==
    LET x == Get(op, k)
    IN  IF k \in UserOpIntFields THEN NumberWritten(x)
        ELSE IF k \in UserOpBytesFields
          THEN (IF x \in {None, EmptyStr} THEN NoDigits ELSE x.body)
        ELSE IF k = "sender"
          THEN (IF x \in {None, EmptyStr, BytesHex(<<>>)} THEN AddrDigits(ZeroDigits)
                ELSE x.body)
        ELSE IF x \in {None, EmptyStr} THEN None
        ELSE IF x = BytesHex(<<>>) THEN AddrDigits(ZeroDigits)
        ELSE x.body

FitsHalfWord(v) == NumberWritten(v) < Pow2(HalfWordBits)

\* an operation whose gas limits and fees all fit their 128-bit halves
WithinHalfWords(op) == \A f \in UserOpHalfWordFields : FitsHalfWord(Get(op, f))

\* the value of field k differs between a and b, not only its notation, and the
\* hash reads field k of these operations
MaterialDifference(a, b, k) ==
    LET x == Get(a, k)
        y == Get(b, k)
    IN  /\ k \in DOMAIN FullUserOp
        /\ ValueWritten(a, k) # ValueWritten(b, k)
        /\ k = "factoryData" => ValueWritten(a, "factory") # None
        /\ k \in {"paymasterVerificationGasLimit", "paymasterPostOpGasLimit", "paymasterData"}
               => ValueWritten(a, "paymaster") # None

\* C28, amended: equal inputs give equal hashes; two operations on which the hash
\* returns, whose gas limits and fees fit in 128 bits, and which differ in exactly
\* one field, in its value and in a field the hash reads, give different hashes
C28_ReadFieldChangesHash ==
    /\ (HashedTwice /\ hasher.first.user_op = hasher.second.user_op
                    /\ hasher.first.chain_id = hasher.second.chain_id)
            => hasher.first.result = hasher.second.result
    /\ (/\ DifferInOneField
        /\ ~IsRaise(hasher.first.result) /\ ~IsRaise(hasher.second.result)
        /\ WithinHalfWords(hasher.first.user_op) /\ WithinHalfWords(hasher.second.user_op)
        /\ \A k \in DifferingFields(hasher.first.user_op, hasher.second.user_op) :
               MaterialDifference(hasher.first.user_op, hasher.second.user_op, k))
            => hasher.first.result # hasher.second.result

C28_Witness ==
    /\ DifferInOneField
    /\ DifferingFields(hasher.first.user_op, hasher.second.user_op) = {"verificationGasLimit"}
    /\ ~IsRaise(hasher.first.result) /\ ~IsRaise(hasher.second.result)
    /\ ValueWritten(hasher.first.user_op, "verificationGasLimit") = 0
    /\ ValueWritten(hasher.second.user_op, "verificationGasLimit") = 1
    /\ WithinHalfWords(hasher.first.user_op) /\ WithinHalfWords(hasher.second.user_op)
    /\ hasher.first.result # hasher.second.result

\* the calls of the hash made so far
HashCalls == {hasher.first, hasher.second} \ {None}

\* the integer a packed 32-byte word of the hashed encoding holds
WordOf(call, word) == call.result.body.of.inner_hash.of[word].parts[1][3]

\* the word is its high field times 2^128 plus its low field, and each field can
\* be read back from its own half
PackedAs(n, high, low) ==
    /\ n = high * Pow2(HalfWordBits) + low
    /\ n \div Pow2(HalfWordBits) = high
    /\ n % Pow2(HalfWordBits) = low

\* C35: when verificationGasLimit v and callGasLimit c both fit a half word, the
\* packed gas-limit word is v * 2^128 + c, and when maxPriorityFeePerGas p and
\* maxFeePerGas m both fit, the packed fee word is p * 2^128 + m: each field
\* keeps to its own half of the word.
C35_PackedWords ==
    \A call \in HashCalls :
        ~IsRaise(call.result) =>
            LET v == NumberWritten(Get(call.user_op, "verificationGasLimit"))
                c == NumberWritten(Get(call.user_op, "callGasLimit"))
                p == NumberWritten(Get(call.user_op, "maxPriorityFeePerGas"))
                m == NumberWritten(Get(call.user_op, "maxFeePerGas"))
            IN  /\ (v < Pow2(HalfWordBits) /\ c < Pow2(HalfWordBits)) =>
                      PackedAs(WordOf(call, "account_gas_limits"), v, c)
                /\ (p < Pow2(HalfWordBits) /\ m < Pow2(HalfWordBits)) =>
                      PackedAs(WordOf(call, "gas_fees"), p, m)

\* both gas limits are the greatest value of a half word, and so are both fees
\* of the other operation
C35_Witness ==
    /\ HashedTwice
    /\ ~IsRaise(hasher.first.result) /\ ~IsRaise(hasher.second.result)
    /\ ValueWritten(hasher.first.user_op, "verificationGasLimit") = Pow2(HalfWordBits) - 1
    /\ ValueWritten(hasher.first.user_op, "callGasLimit") = Pow2(HalfWordBits) - 1
    /\ WordOf(hasher.first, "account_gas_limits") = Pow2(2 * HalfWordBits) - 1
    /\ ValueWritten(hasher.second.user_op, "maxPriorityFeePerGas") = Pow2(HalfWordBits) - 1
    /\ ValueWritten(hasher.second.user_op, "maxFeePerGas") = 0
    /\ WordOf(hasher.second, "gas_fees") = (Pow2(HalfWordBits) - 1) * Pow2(HalfWordBits)

\* every integer of the operation is an int, a decimal string or a 0x-hex string
\* (or missing), and every other field is missing or a 0x-hex string
WellWritten(op) ==
    \A k \in DOMAIN op \cap DOMAIN FullUserOp :
        \/ op[k] = None
        \/ IF k \in UserOpIntFields
             THEN op[k] # EmptyStr /\ op[k].kind \in {"native", "dec", "hex"}
             ELSE op[k] = EmptyStr \/ op[k].prefix = "0x"

\* the two operations say the same in every field
SameOperation(a, b) == \A k \in DOMAIN FullUserOp : ValueWritten(a, k) = ValueWritten(b, k)

-----------------------------------------------------------------------------
(* Properties of the Authorization Port implementations *)

\* the call into the port has returned an authorization
AuthorizationReturned ==
    /\ treasurer.pc = "done"
    /\ treasurer.method \in {"onPaymentRequired", "authorize"}
    /\ treasurer.outcome.kind = "return"
    /\ treasurer.outcome.value # None

\* the requirements the wallet was asked to sign for, in order
SignedFor ==
    LET asked == SelectSeq(collaborator_calls, LAMBDA e : e.target = "wallet.create_payment")
    IN  [i \in 1..Len(asked) |-> asked[i].requirements]

\* the report_payment_event calls, in order
ReportedEvents ==
    SelectSeq(collaborator_calls, LAMBDA e : e.target = "api_client.report_payment_event")

\* C24: every authorization a port implementation returns selects and signs a
\* requirement that is one of payment_required.accepts, whatever the service replied
C24_SelectedIsOffered ==
    AuthorizationReturned =>
        /\ SignedFor # <<>>
        /\ \A i \in 1..Len(SignedFor) :
               SignedFor[i] \in Range(treasurer.payment_required.accepts)
        /\ "selected_requirement" \in DOMAIN treasurer.outcome.value =>
               treasurer.outcome.value.selected_requirement
                   \in Range(treasurer.payment_required.accepts)

\* C25: onStatus of either implementation returns normally, whatever the status and
\* the authorization, and also when reporting the event fails
C25_OnStatusNeverRaises ==
    (treasurer.pc = "done" /\ treasurer.method = "onStatus") =>
        treasurer.outcome.kind = "return"

\* the service has answered onPaymentRequired's authorize_payment with no
\* authorized requirement
NoneAuthorized ==
    /\ treasurer.impl = "AmpersendTreasurer"
    /\ treasurer.method = "onPaymentRequired"
    /\ treasurer.result # None
    /\ treasurer.result.authorized.requirements = <<>>

\* C26: when the service authorizes none of the offers onPaymentRequired returns
\* None, having asked nothing of the wallet and reported no payment event
C26_NoneAuthorizedDeclines ==
    NoneAuthorized =>
        /\ treasurer.pc = "done"
        /\ treasurer.outcome = PortReturned(None)
        /\ SignedFor = <<>>
        /\ ReportedEvents = <<>>

C26_Witness ==
    /\ NoneAuthorized
    /\ treasurer.payment_required.accepts # <<>>
    /\ treasurer.outcome = PortReturned(None)

\* C27: when AmpersendTreasurer.onPaymentRequired returns an authorization, what it
\* asked of its collaborators after the authorization check is, in this order and
\* nothing else: one create_payment for the selected requirement, one uuid4 giving
\* the authorization id, one report of a `sending` event under that id with the
\* payment that is returned
C27_SignThenIdThenReport ==
    (AuthorizationReturned /\ treasurer.impl = "AmpersendTreasurer") =>
        LET authorization == treasurer.outcome.value
        IN  /\ \E i \in 1..Len(treasurer.result.authorized.requirements) :
                   treasurer.result.authorized.requirements[i].requirement
                       = authorization.selected_requirement
            /\ \E signature \in WalletSignatures :
                   authorization.payment
                       = SignedPayment(authorization.selected_requirement, signature)
            /\ collaborator_calls =
                 <<AuthorizePaymentCall(treasurer.payment_required.accepts),
                   CreatePaymentCall(authorization.selected_requirement),
                   Uuid4Call(authorization.authorization_id),
                   ReportPaymentEventCall(authorization.authorization_id,
                                          authorization.payment, PaymentEventSending)>>

C27_Witness ==
    /\ AuthorizationReturned
    /\ treasurer.impl = "AmpersendTreasurer"
    /\ Len(treasurer.result.authorized.requirements) > 1
    /\ treasurer.result.authorized.recommended = Index(1)
    /\ Len(ReportedEvents) = 1

-----------------------------------------------------------------------------
(* Properties of BlockRunAI.chat_completion *)

\* the POSTs chat_completion has issued, in order
Posts == SelectSeq(blockrun_calls, LAMBDA e : e.target = "client.post")

\* its consultations of the treasurer
Consultations == SelectSeq(blockrun_calls, LAMBDA e : e.target = "treasurer.onPaymentRequired")

\* the payment data of the first response: the payment-required header when it has
\* a value, else the body
FirstPaymentData ==
    IF Truthy(Get(blockrun.response.headers, "payment-required"))
      THEN blockrun.response.headers["payment-required"]
      ELSE blockrun.response.content

\* the first response is a 402 whose payment data lists no requirement
EmptyAccepts402 ==
    /\ blockrun.response # None
    /\ blockrun.response.status_code = 402
    /\ FirstPaymentData.tag = "json"
    /\ GetOr(FirstPaymentData.v, "accepts", <<>>) = <<>>

\* the first response is a 402 whose payment data lists requirements
Offers402 ==
    /\ blockrun.response # None
    /\ blockrun.response.status_code = 402
    /\ FirstPaymentData.tag = "json"
    /\ GetOr(FirstPaymentData.v, "accepts", <<>>) # <<>>

RaisedBlockRunAIError ==
    /\ blockrun.pc = "done"
    /\ blockrun.outcome.kind = "raise"
    /\ blockrun.outcome.exc = "BlockRunAIError"

\* C30: one chat_completion issues at most two POSTs; one, and no consultation of
\* the treasurer, when the first response is not a 402; two when the first response
\* is a 402 with requirements and the treasurer authorizes, the second with the
\* payment under X-PAYMENT; a second 402, a decline and an empty accepts list each
\* end in BlockRunAIError with no further POST
C30_AtMostTwoPosts ==
    /\ Len(Posts) <= 2
    /\ Len(Consultations) <= 1
    /\ (blockrun.response # None /\ blockrun.response.status_code # 402) =>
           /\ blockrun.pc = "done"
           /\ Len(Posts) = 1
           /\ Consultations = <<>>
    /\ (Offers402 /\ blockrun.authorization \notin {Unbound, None}) =>
           /\ Len(Posts) = 2
           /\ "X-PAYMENT" \notin DOMAIN Posts[1].headers
           /\ "X-PAYMENT" \in DOMAIN Posts[2].headers
           /\ Posts[2].headers["X-PAYMENT"] = blockrun.authorization.payment
           /\ Posts[2].url = Posts[1].url
           /\ Posts[2].json = Posts[1].json
    /\ (blockrun.retry_response # None /\ blockrun.retry_response.status_code = 402) =>
           /\ RaisedBlockRunAIError
           /\ Len(Posts) = 2
    /\ (Offers402 /\ blockrun.authorization = None) =>
           /\ RaisedBlockRunAIError
           /\ Len(Posts) = 1
    /\ EmptyAccepts402 =>
           /\ RaisedBlockRunAIError
           /\ Len(Posts) = 1
           /\ Consultations = <<>>

C30_Witness ==
    /\ Offers402
    /\ blockrun.authorization \notin {Unbound, None}
    /\ blockrun.retry_response # None
    /\ blockrun.retry_response.status_code = 402
    /\ RaisedBlockRunAIError
    /\ Len(Posts) = 2

-----------------------------------------------------------------------------
(* Properties of the transport: order of steps, isolation of calls, progress *)

\* the 402 that call c intercepted has been read to its end and closed
Drained(c) ==
    /\ calls[c].response # None
    /\ calls[c].response.status_code = 402
    /\ calls[c].response.is_stream_consumed
    /\ calls[c].response.is_closed

\* C32: the 402 of a request that is not a retry is read to its end and closed
\* before the treasurer's onPaymentRequired is called and before the retry is
\* sent: no retry is in flight, and none has been sent, while the 402 is open.
C32_DrainedBeforeAuthorize ==
    \A c \in CallIds :
        /\ PaymentRequiredCallsOf(c) # <<>> => Drained(c)
        /\ Len(RequestsOf(c)) > 1 => Drained(c)
        /\ calls[c].pc \in {"authorizing", "retrying", "reporting"} => Drained(c)

\* the retry is in flight, the 402 was handed over open and unread
C32_Witness ==
    /\ calls[1].pc = "retrying"
    /\ Len(RequestsOf(1)) = 2
    /\ Len(ResponsesOf(1)) = 1
    /\ ~ResponsesOf(1)[1].response.is_closed
    /\ ~ResponsesOf(1)[1].response.is_stream_consumed
    /\ Drained(1)

\* the retry of call c carries the proof and the frame of its own call
OwnRetry(c) ==
    LET original == RequestsOf(c)[1].request
        retry == RequestsOf(c)[2].request
        name == IF calls[c].protocol = "v2" THEN "payment-signature" ELSE "x-payment"
        proof == IF calls[c].protocol = "v2"
                   THEN encode_v2_payment_signature(calls[c].authorization.payment,
                                                    calls[c].v2_ctx,
                                                    calls[c].authorization.selected_requirement)
                   ELSE encode_v1_payment_header(calls[c].authorization.payment)
    IN  /\ calls[c].authorization # None
        /\ original = calls[c].request
        /\ retry.method = original.method
        /\ retry.url = original.url
        /\ retry.content = original.content
        /\ Get(retry.headers, name) = proof
        /\ CarriesRetryFlag(retry)

\* the status report of call c is about its own authorization and its own retry
OwnStatus(c) ==
    LET report == StatusCallsOf(c)[1]
        answer == ResponsesOf(c)[2].response
    IN  /\ Len(RequestsOf(c)) = 2
        /\ Len(ResponsesOf(c)) = 2
        /\ report.authorization = calls[c].authorization
        /\ report.context = Context(calls[c].request)
        /\ report.status = (IF answer.status_code = 402 THEN "payment-rejected"
                            ELSE IF answer.status_code = 200 THEN "payment-completed"
                            ELSE "payment-failed")

\* C33: two logical calls whose steps interleave in any way on one transport
\* instance do not touch each other: each call sends at most one retry, the
\* retry carries the proof of the authorization its own call got, and the one
\* status report of a call carries that call's authorization and the status of
\* that call's retried response.
C33_CallsIsolated ==
    \A c \in CallIds :
        /\ Len(RequestsOf(c)) <= 2
        /\ Len(RequestsOf(c)) = 2 => OwnRetry(c)
        /\ Len(StatusCallsOf(c)) <= 1
        /\ Len(StatusCallsOf(c)) = 1 => OwnStatus(c)
        /\ Len(PaymentRequiredCallsOf(c)) <= 1

\* both retries were in flight together; call 2 was authorized last and answered
\* first, with another authorization and another outcome than call 1
C33_Witness ==
    /\ Len(wrapped_requests) = 4
    /\ wrapped_requests[3].call = 1
    /\ wrapped_requests[4].call = 2
    /\ Len(wrapped_responses) = 4
    /\ wrapped_responses[3].call = 2
    /\ wrapped_responses[4].call = 1
    /\ Finished(1) /\ Finished(2)
    /\ calls[1].protocol = "v1" /\ calls[2].protocol = "v2"
    /\ calls[1].authorization.authorization_id = "id-1"
    /\ calls[2].authorization.authorization_id = "id-2"
    /\ calls[1].request.method # calls[2].request.method
    /\ StatusCallsOf(1)[1].status = "payment-completed"
    /\ StatusCallsOf(2)[1].status = "payment-rejected"

\* where call c is in the state machine Sent -> Authorizing -> Retried -> Done
Phase(pc) ==
    CASE pc = "idle" -> 0
      [] pc = "sent" -> 1
      [] pc \in {"aread", "aclose", "authorizing"} -> 2
      [] pc \in {"retrying", "reporting"} -> 3
      [] pc = "done" -> 4

\* no step takes a call back to an earlier phase
NeverBack == \A c \in CallIds : Phase(calls'[c].pc) >= Phase(calls[c].pc)

\* C34: provided every awaited call of the wrapped transport and of the
\* treasurer comes back, every call that was started is eventually done (it has
\* returned or raised); and no step moves a call back from Retried to
\* Authorizing, or back at all, so that no server can make it loop.
C34_EventuallyDone ==
    /\ \A c \in CallIds : Started(c) ~> Finished(c)
    /\ [][NeverBack]_vars

\* the server answers the retry with the same 402 again, and the call is done
C34_Witness ==
    /\ Finished(1)
    /\ Len(ResponsesOf(1)) = 2
    /\ ResponsesOf(1)[1].response.status_code = 402
    /\ ResponsesOf(1)[2].response = ResponsesOf(1)[1].response
    /\ Len(PaymentRequiredCallsOf(1)) = 1
    /\ calls[1].result.kind = "return"
    /\ calls[1].result.response.status_code = 402

\* C37: in a call the treasurer's onPaymentRequired is called at most once, and
\* only after a 402 to a request that is not a retry, with the envelope parsed
\* from that 402; onStatus is called at most once, only once the retry has been
\* answered, with the authorization onPaymentRequired returned in this call and
\* with one of the statuses completed, rejected and failed.
C37_PortCallsInOrder ==
    \A c \in CallIds :
        /\ Len(PaymentRequiredCallsOf(c)) <= 1
        /\ PaymentRequiredCallsOf(c) # <<>> =>
              /\ Len(ResponsesOf(c)) >= 1
              /\ ResponsesOf(c)[1].response.status_code = 402
              /\ ~CarriesRetryFlag(RequestsOf(c)[1].request)
              /\ ~Malformed(ResponsesOf(c)[1].response)
              /\ PaymentRequiredCallsOf(c)[1].payment_required = calls[c].payment_required
              /\ calls[c].payment_required # None
        /\ Len(StatusCallsOf(c)) <= 1
        /\ StatusCallsOf(c) # <<>> =>
              /\ Len(PaymentRequiredCallsOf(c)) = 1
              /\ Len(RequestsOf(c)) = 2
              /\ Len(ResponsesOf(c)) = 2
              /\ calls[c].authorization # None
              /\ StatusCallsOf(c)[1].authorization = calls[c].authorization
              /\ StatusCallsOf(c)[1].status \in
                    {"payment-completed", "payment-rejected", "payment-failed"}

\* both callbacks were called, once each, and the status is the failure of a retry
\* the server answered with a 500
C37_Witness ==
    /\ Finished(1)
    /\ Len(PaymentRequiredCallsOf(1)) = 1
    /\ Len(StatusCallsOf(1)) = 1
    /\ calls[1].protocol = "v2"
    /\ ResponsesOf(1)[2].response.status_code = 500
    /\ StatusCallsOf(1)[1].status = "payment-failed"
    /\ StatusCallsOf(1)[1].authorization.authorization_id = "id-2"

\* onPaymentRequired raised in call c
PortRaisedIn(c) == calls[c].raised_at = "authorizing"

\* C38: when the treasurer's onPaymentRequired raises, the exception leaves
\* handle_async_request, the original request is the only one that went to the
\* wrapped transport, and onStatus is not called.
C38_PortErrorPropagates ==
    \A c \in CallIds :
        PortRaisedIn(c) =>
            /\ Finished(c)
            /\ calls[c].result = Raised("Exception")
            /\ Len(RequestsOf(c)) = 1
            /\ ~CarriesRetryFlag(RequestsOf(c)[1].request)
            /\ Len(PaymentRequiredCallsOf(c)) = 1
            /\ StatusCallsOf(c) = <<>>

\* the treasurer raised on the envelope of a v2 server that offers two requirements
C38_Witness ==
    /\ PortRaisedIn(1)
    /\ calls[1].protocol = "v2"
    /\ Len(PaymentRequiredCallsOf(1)) = 1
    /\ Len(PaymentRequiredCallsOf(1)[1].payment_required.accepts) = 2
    /\ calls[1].result.kind = "raise"
    /\ Len(wrapped_requests) = 1

\* the names under which a proof of payment travels
PaymentHeaderNames == {"x-payment", "payment-signature"}

\* C40: handle_async_request leaves the request of its caller as it was handed
\* over: after a paid retry it has the headers and extensions the caller gave
\* it, without the proof of payment and without the retry flag, which only the
\* request built for the retry carries.
C40_OriginalUnchanged ==
    \A c \in CallIds :
        Started(c) =>
            /\ calls[c].request = RequestsOf(c)[1].request
            /\ Len(RequestsOf(c)) = 2 =>
                  LET original == calls[c].request
                      retry == RequestsOf(c)[2].request
                  IN  /\ ~CarriesRetryFlag(original)
                      /\ CarriesRetryFlag(retry)
                      /\ \E name \in PaymentHeaderNames :
                            /\ name \in DOMAIN retry.headers
                            /\ Get(original.headers, name) # retry.headers[name]
                      /\ \A name \in PaymentHeaderNames \cap DOMAIN original.headers :
                            original.headers[name] = Raw("stale")

\* the caller's request had a header and an extension of its own; the retry was
\* paid, and the caller's request still has its own header value
C40_Witness ==
    /\ Finished(1)
    /\ Len(RequestsOf(1)) = 2
    /\ calls[1].protocol = "v1"
    /\ calls[1].request.extensions = ("timeout" :> TRUE)
    /\ Get(calls[1].request.headers, "x-payment") = Raw("stale")
    /\ RequestsOf(1)[2].request.headers["x-payment"] # Raw("stale")
    /\ RequestsOf(1)[2].request.extensions = (RETRY_KEY :> TRUE) @@ ("timeout" :> TRUE)
    /\ Len(StatusCallsOf(1)) = 1
    /\ StatusCallsOf(1)[1].status = "payment-completed"

-----------------------------------------------------------------------------
(* Specifications *)

InitTransport ==
    /\ active = {1}
    /\ calls = [c \in CallIds |-> IdleFrame]
    /\ wrapped_requests = <<>>
    /\ wrapped_responses = <<>>
    /\ payment_required_calls = <<>>
    /\ status_calls = <<>>

InitMgmt ==
    /\ mgmt = IdleMgmt
    /\ http_requests = <<>>
    /\ signatures = <<>>

InitAdapter == adapter = IdleAdapter

InitTreasurer ==
    /\ treasurer = IdleTreasurer
    /\ collaborator_calls = <<>>

InitHasher == hasher = IdleHasher

InitBlockRun ==
    /\ blockrun = IdleBlockRun
    /\ blockrun_calls = <<>>

\* both callers have the transport instance
InitTwoCalls ==
    /\ active = CallIds
    /\ calls = [c \in CallIds |-> IdleFrame]
    /\ wrapped_requests = <<>>
    /\ wrapped_responses = <<>>
    /\ payment_required_calls = <<>>
    /\ status_calls = <<>>
    /\ InitMgmt /\ InitAdapter /\ InitTreasurer /\ InitHasher /\ InitBlockRun

Init ==
    InitTransport /\ InitMgmt /\ InitAdapter /\ InitTreasurer /\ InitHasher /\ InitBlockRun

Next == NextTransport

\* one logical call through the transport, against every server and treasurer
Spec == Init /\ [][Next]_vars

\* one create_agent call, against every server
SpecMgmt == Init /\ [][NextMgmt]_vars

\* one payload through the adapter, decoded and encoded back
SpecAdapter == Init /\ [][NextAdapter]_vars

\* one call into an Authorization Port implementation
SpecTreasurer == Init /\ [][NextTreasurer]_vars

\* two calls of the canonical operation hash
SpecHasher == Init /\ [][NextHasher]_vars

\* one call of BlockRunAI.chat_completion
SpecBlockRun == Init /\ [][NextBlockRun]_vars

\* two logical calls interleaved on one transport instance
SpecTwoCalls == InitTwoCalls /\ [][NextTwoCalls]_vars

\* one logical call, no awaited call of which hangs for ever
SpecLive == Init /\ [][Next]_vars /\ EveryAwaitReturns

====
